---- MODULE Spec2Model ----
(***************************************************************************)
(* Entity / relation / graph pipeline of the semantic_analysis package:    *)
(* KnowledgeGraphBuilder (knowledge_graph.py) and EntityRecognizer         *)
(* (entity_recognizer.py).                                                 *)
(*                                                                         *)
(* Texts are strings.  Offsets are 0-based as in Python: the character at  *)
(* offset i of t is SubSeq(t, i+1, i+1), and a span <<s, e>> is the        *)
(* half-open interval t[s:e].  The alphabet is ASCII.                      *)
(***************************************************************************)
EXTENDS Integers, Sequences, FiniteSets, TLC

(***************************************************************************)
(* Characters and the str methods the code calls.                          *)
(***************************************************************************)
UpperStr == "ABCDEFGHIJKLMNOPQRSTUVWXYZ"
LowerStr == "abcdefghijklmnopqrstuvwxyz"
DigitStr == "0123456789"

CharsOf(s) == {SubSeq(s, i, i) : i \in 1..Len(s)}

UpperCh == CharsOf(UpperStr)
LowerCh == CharsOf(LowerStr)
DigitCh == CharsOf(DigitStr)
\* \w of a str pattern, restricted to ASCII
WordCh == UpperCh \cup LowerCh \cup DigitCh \cup {"_"}
\* \s, and the characters str.strip() removes
SpaceCh == {" ", "\t", "\n", "\r", "\f"}

LowerMap == [c \in UpperCh |->
               LET i == CHOOSE j \in 1..Len(UpperStr) : SubSeq(UpperStr, j, j) = c
               IN  SubSeq(LowerStr, i, i)]
UpperMap == [c \in LowerCh |->
               LET i == CHOOSE j \in 1..Len(LowerStr) : SubSeq(LowerStr, j, j) = c
               IN  SubSeq(UpperStr, i, i)]

LowerChar(c) == IF c \in UpperCh THEN LowerMap[c] ELSE c
UpperChar(c) == IF c \in LowerCh THEN UpperMap[c] ELSE c

CharAt(t, i) == SubSeq(t, i + 1, i + 1)

\* t[s:e] for 0 <= s <= e <= len(t)
Slice(t, s, e) == SubSeq(t, s + 1, e)

RECURSIVE StrLower(_)
\* str.lower()
StrLower(s) ==
    IF Len(s) = 0 THEN ""
    ELSE LowerChar(SubSeq(s, 1, 1)) \o StrLower(SubSeq(s, 2, Len(s)))

RECURSIVE LStrip(_)
LStrip(s) ==
    IF Len(s) > 0 /\ SubSeq(s, 1, 1) \in SpaceCh
    THEN LStrip(SubSeq(s, 2, Len(s)))
    ELSE s

RECURSIVE RStrip(_)
RStrip(s) ==
    IF Len(s) > 0 /\ SubSeq(s, Len(s), Len(s)) \in SpaceCh
    THEN RStrip(SubSeq(s, 1, Len(s) - 1))
    ELSE s

\* str.strip()
Strip(s) == RStrip(LStrip(s))

Min(a, b) == IF a < b THEN a ELSE b
Max(a, b) == IF a > b THEN a ELSE b

(***************************************************************************)
(* Regular expressions (module re).  A pattern is a syntax tree; matching  *)
(* is the backtracking matcher's: M returns every way the expression can   *)
(* match at offset i, in the order the matcher tries them (greedy          *)
(* repetition longest first, alternatives left to right), so the match     *)
(* found is the first one.  An outcome is [e |-> end offset, g |-> the     *)
(* spans of the capturing groups], NoGroup for a group that did not        *)
(* participate.                                                            *)
(***************************************************************************)
Lit(s)        == [k |-> "lit", s |-> s]
In(cs)        == [k |-> "in", cs |-> cs]
NotIn(cs)     == [k |-> "notin", cs |-> cs]
Cat(rs)       == [k |-> "cat", rs |-> rs]
Alt(rs)       == [k |-> "alt", rs |-> rs]
Rep(r, lo, hi) == [k |-> "rep", r |-> r, lo |-> lo, hi |-> hi]
Grp(n, r)     == [k |-> "grp", n |-> n, r |-> r]
WordB         == [k |-> "wb"]
NotAhead(r)   == [k |-> "nla", r |-> r]

Unbounded == -1
Star(r) == Rep(r, 0, Unbounded)
Plus(r) == Rep(r, 1, Unbounded)
Opt(r)  == Rep(r, 0, 1)
\* (?:w1|w2|...)
Words(ws) == Alt([i \in DOMAIN ws |-> Lit(ws[i])])

NoGroup == <<-1, -1>>
Out(e, g) == [e |-> e, g |-> g]

IsWordAt(t, i) == i >= 0 /\ i < Len(t) /\ CharAt(t, i) \in WordCh

CharIn(c, cs, ic) ==
    \/ c \in cs
    \/ ic /\ (LowerChar(c) \in cs \/ UpperChar(c) \in cs)

LitAt(t, i, s, ic) ==
    /\ i + Len(s) <= Len(t)
    /\ IF ic THEN \A k \in 0..(Len(s) - 1) :
                      LowerChar(CharAt(t, i + k)) = LowerChar(CharAt(s, k))
             ELSE Slice(t, i, i + Len(s)) = s

RECURSIVE M(_, _, _, _, _)
RECURSIVE FlatM(_, _, _, _)
RECURSIVE MCat(_, _, _, _, _)
RECURSIVE MAlt(_, _, _, _, _, _)
RECURSIVE MRep(_, _, _, _, _, _, _)
RECURSIVE FlatRep(_, _, _, _, _, _)

\* every outcome of r continued from every outcome of outs, in order
FlatM(r, t, ic, outs) ==
    IF outs = <<>> THEN <<>>
    ELSE IF Len(outs) = 1 THEN M(r, t, ic, outs[1].e, outs[1].g)
    ELSE LET half == Len(outs) \div 2
         IN  FlatM(r, t, ic, SubSeq(outs, 1, half))
               \o FlatM(r, t, ic, SubSeq(outs, half + 1, Len(outs)))

\* rs[k], rs[k+1], ... in sequence, continued from outs
MCat(rs, k, t, ic, outs) ==
    IF k > Len(rs) \/ outs = <<>> THEN outs
    ELSE MCat(rs, k + 1, t, ic, FlatM(rs[k], t, ic, outs))

\* rs[k] | rs[k+1] | ...
MAlt(rs, k, t, ic, i, g) ==
    IF k > Len(rs) THEN <<>>
    ELSE M(rs[k], t, ic, i, g) \o MAlt(rs, k + 1, t, ic, i, g)

FlatRep(r, t, ic, outs, lo, hi) ==
    IF outs = <<>> THEN <<>>
    ELSE MRep(r, t, ic, Head(outs).e, Head(outs).g, lo, hi)
           \o FlatRep(r, t, ic, Tail(outs), lo, hi)

\* greedy r{lo,hi}: one more repetition is tried before stopping
MRep(r, t, ic, i, g, lo, hi) ==
    LET once == SelectSeq(M(r, t, ic, i, g), LAMBDA o : o.e > i)
        more == IF hi = 0 THEN <<>>
                ELSE FlatRep(r, t, ic, once, Max(lo - 1, 0),
                             IF hi = Unbounded THEN Unbounded ELSE hi - 1)
        stop == IF lo <= 0 THEN <<Out(i, g)>> ELSE <<>>
    IN  more \o stop

\* re, a character class, accepts the character of t at offset j
ClassAt(re, t, ic, j) ==
    /\ j < Len(t)
    /\ CharIn(CharAt(t, j), re.cs, ic) = (re.k = "in")

RECURSIVE RunEndNear(_, _, _, _)
\* the end of the longest run of characters of the class re from offset i
RunEndNear(re, t, ic, i) ==
    IF ClassAt(re, t, ic, i) THEN RunEndNear(re, t, ic, i + 1) ELSE i

RECURSIVE RunEnd(_, _, _, _)
\* the same end, a long run being crossed eight characters at a time
RunEnd(re, t, ic, i) ==
    IF \A j \in i..(i + 7) : ClassAt(re, t, ic, j) THEN RunEnd(re, t, ic, i + 8)
    ELSE RunEndNear(re, t, ic, i)

\* greedy r{lo,hi} for a character class r: the run of the class from i,
\* longest first, which is what MRep yields for it
MRepClass(r, t, ic, i, g, lo, hi) ==
    LET run == RunEnd(r, t, ic, i) - i
        top == IF hi = Unbounded THEN run ELSE Min(run, hi)
        least == Max(lo, 0)
    IN  [k \in 1..(top - least + 1) |-> Out(i + top - k + 1, g)]

M(re, t, ic, i, g) ==
    CASE re.k = "lit" ->
           IF LitAt(t, i, re.s, ic) THEN <<Out(i + Len(re.s), g)>> ELSE <<>>
      [] re.k = "in" ->
           IF i < Len(t) /\ CharIn(CharAt(t, i), re.cs, ic)
           THEN <<Out(i + 1, g)>> ELSE <<>>
      [] re.k = "notin" ->
           IF i < Len(t) /\ ~CharIn(CharAt(t, i), re.cs, ic)
           THEN <<Out(i + 1, g)>> ELSE <<>>
      [] re.k = "cat" -> MCat(re.rs, 1, t, ic, <<Out(i, g)>>)
      [] re.k = "alt" -> MAlt(re.rs, 1, t, ic, i, g)
      [] re.k = "rep" ->
           IF re.r.k \in {"in", "notin"}
           THEN MRepClass(re.r, t, ic, i, g, re.lo, re.hi)
           ELSE MRep(re.r, t, ic, i, g, re.lo, re.hi)
      [] re.k = "grp" ->
           LET inner == M(re.r, t, ic, i, g)
           IN  [j \in DOMAIN inner |->
                  Out(inner[j].e, [inner[j].g EXCEPT ![re.n] = <<i, inner[j].e>>])]
      [] re.k = "wb" ->
           IF IsWordAt(t, i - 1) # IsWordAt(t, i) THEN <<Out(i, g)>> ELSE <<>>
      [] re.k = "nla" ->
           IF M(re.r, t, ic, i, g) = <<>> THEN <<Out(i, g)>> ELSE <<>>

\* A compiled pattern: its tree and its number of capturing groups.
Pattern(re, ngroups) == [re |-> re, ngroups |-> ngroups]

\* A pattern string that re.compile rejects, and whether p compiles.
Malformed == [re |-> [k |-> "malformed"], ngroups |-> 0]
Compiles(p) == p.re.k # "malformed"

\* A match object: span() and the span of each group.
MatchAt(p, t, ic, i) ==
    LET outs == M(p.re, t, ic, i, [n \in 1..p.ngroups |-> NoGroup])
    IN  IF outs = <<>> THEN <<>>
        ELSE <<[start |-> i, end |-> Head(outs).e, g |-> Head(outs).g]>>

RECURSIVE FirstMatchIn(_, _, _, _, _)
\* the match at the leftmost offset of lo..hi that has one, if any
FirstMatchIn(p, t, ic, lo, hi) ==
    IF lo > hi THEN <<>>
    ELSE IF lo = hi THEN MatchAt(p, t, ic, lo)
    ELSE LET mid == (lo + hi) \div 2
             left == FirstMatchIn(p, t, ic, lo, mid)
         IN  IF left # <<>> THEN left ELSE FirstMatchIn(p, t, ic, mid + 1, hi)

RECURSIVE FindIterFrom(_, _, _, _)
\* re.finditer: leftmost match from offset i, then on from its end
FindIterFrom(p, t, ic, i) ==
    LET m == FirstMatchIn(p, t, ic, i, Len(t))
    IN  IF m = <<>> THEN <<>>
        ELSE m \o FindIterFrom(p, t, ic,
                               IF m[1].end > m[1].start THEN m[1].end
                               ELSE m[1].start + 1)

FindIter(p, t, ic) == FindIterFrom(p, t, ic, 0)

\* match.group(): the whole match
Group0(t, m) == Slice(t, m.start, m.end)
\* match.group(n) is None
GroupIsNone(m, n) == m.g[n] = NoGroup
\* match.group(n) when it is not None
Group(t, m, n) == Slice(t, m.g[n][1], m.g[n][2])

(***************************************************************************)
(* Pieces the patterns share.                                              *)
(***************************************************************************)
\* \s+
Sp == Plus(In(SpaceCh))
\* \w+
W == Plus(In(WordCh))
\* [A-Z][a-z]+
CapWord == Cat(<<In(UpperCh), Plus(In(LowerCh))>>)
\* [A-Z][a-z]+(?:\s+[A-Z][a-z]+)*
CapWords == Cat(<<CapWord, Star(Cat(<<Sp, CapWord>>))>>)
\* (?:the\s+)?
OptThe == Opt(Cat(<<Lit("the"), Sp>>))
\* (?:\'s)?
OptS == Opt(Lit("'s"))

(***************************************************************************)
(* KnowledgeGraphBuilder: the pattern tables, in declaration order (dict   *)
(* iteration order).                                                       *)
(***************************************************************************)
KG_PersonPattern ==
    Pattern(Cat(<<WordB, Grp(1, CapWord), WordB, Star(Cat(<<Sp, CapWord>>))>>), 1)

KG_LocationPattern ==
    Pattern(Cat(<<Words(<<"in", "at", "to", "from">>), Sp, OptThe,
                  Grp(1, CapWords)>>), 1)

KG_OrganizationPattern ==
    Pattern(Cat(<<OptThe, Grp(1, CapWords), Sp,
                  Words(<<"Company", "Corporation", "Institute", "Academy",
                          "Guild", "Order">>)>>), 1)

KG_ObjectPattern ==
    Pattern(Cat(<<Words(<<"the", "a", "an">>), Sp, Opt(Grp(1, Cat(<<W, Sp>>))),
                  Words(<<"sword", "ring", "book", "key", "stone", "crown",
                          "wand", "staff", "orb">>)>>), 1)

KG_EventPattern ==
    Pattern(Cat(<<Words(<<"the", "a">>), Sp, Opt(Grp(1, Cat(<<W, Sp>>))),
                  Words(<<"war", "battle", "ceremony", "festival", "journey",
                          "quest", "adventure">>)>>), 1)

entity_patterns ==
    << [type |-> "PERSON",       patterns |-> <<KG_PersonPattern>>],
       [type |-> "LOCATION",     patterns |-> <<KG_LocationPattern>>],
       [type |-> "ORGANIZATION", patterns |-> <<KG_OrganizationPattern>>],
       [type |-> "OBJECT",       patterns |-> <<KG_ObjectPattern>>],
       [type |-> "EVENT",        patterns |-> <<KG_EventPattern>>] >>

\* (\w+)(?:\'s)?\s+(?:w1|w2|...)
PossessivePattern(ws) == Pattern(Cat(<<Grp(1, W), OptS, Sp, Words(ws)>>), 1)
\* (\w+)\s+(?:w1|w2|...)\s+(\w+)
VerbPattern(ws) == Pattern(Cat(<<Grp(1, W), Sp, Words(ws), Sp, Grp(2, W)>>), 2)
\* (\w+)\s+(?:and|with)\s+(\w+)\s+(?:w1|w2|...)
PairPattern(ws) ==
    Pattern(Cat(<<Grp(1, W), Sp, Words(<<"and", "with">>), Sp, Grp(2, W), Sp,
                  ws>>), 2)
\* (\w+)\s+(?:v1|v2|...)\s+(?:p1|p2|...)\s+(?:the\s+)?(\w+)
PlacePattern(vs, ps) ==
    Pattern(Cat(<<Grp(1, W), Sp, vs, Sp, Words(ps), Sp, OptThe, Grp(2, W)>>), 2)

\* x? after a literal stem: loves? is lo-v-e then an optional s
Stem(s, c) == Cat(<<Lit(s), Opt(Lit(c))>>)

KG_Family1 ==
    PossessivePattern(<<"father", "mother", "son", "daughter", "brother",
                        "sister", "parent", "child">>)
KG_Family2 ==
    Pattern(Cat(<<Grp(1, W), Sp, Words(<<"is", "was">>), Sp, OptThe,
                  Words(<<"father", "mother", "son", "daughter", "brother",
                          "sister">>), Sp, Lit("of"), Sp, Grp(2, W)>>), 2)
KG_Friendship1 ==
    PairPattern(Cat(<<Words(<<"are", "were">>), Sp, Lit("friends")>>))
KG_Friendship2 == PossessivePattern(<<"friend", "companion", "ally">>)
KG_Romantic1 ==
    Pattern(Cat(<<Grp(1, W), Sp, Alt(<<Stem("love", "s"), Lit("loved")>>), Sp,
                  Grp(2, W)>>), 2)
KG_Romantic2 == PairPattern(Words(<<"married", "engaged", "together">>))
KG_Antagonistic1 ==
    Pattern(Cat(<<Grp(1, W), Sp,
                  Alt(<<Stem("hate", "s"), Lit("hated"), Lit("fought"),
                        Stem("fight", "s")>>), Sp, Grp(2, W)>>), 2)
KG_Antagonistic2 ==
    PossessivePattern(<<"enemy", "rival", "opponent", "adversary">>)
KG_LocatedIn1 ==
    PlacePattern(Alt(<<Lit("is"), Lit("was"), Stem("live", "d"),
                       Stem("live", "s")>>), <<"in", "at">>)
KG_LocatedIn2 ==
    PlacePattern(Alt(<<Lit("came"), Stem("come", "s"), Lit("went"),
                       Stem("goe", "s")>>), <<"to", "from">>)
KG_Owns1 == Pattern(Cat(<<Grp(1, W), OptS, Sp, Grp(2, W)>>), 2)
KG_Owns2 ==
    Pattern(Cat(<<Grp(1, W), Sp,
                  Alt(<<Stem("own", "s"), Lit("owned"), Lit("has"), Lit("had"),
                        Stem("possesse", "d")>>), Sp, OptThe, Grp(2, W)>>), 2)
KG_Mentor1 ==
    Pattern(Cat(<<Grp(1, W), Sp,
                  Alt(<<Lit("taught"), Stem("teache", "s"), Lit("trained"),
                        Stem("train", "s")>>), Sp, Grp(2, W)>>), 2)
KG_Mentor2 ==
    PossessivePattern(<<"mentor", "teacher", "master", "student",
                        "apprentice">>)

relation_patterns ==
    << [type |-> "FAMILY",       patterns |-> <<KG_Family1, KG_Family2>>],
       [type |-> "FRIENDSHIP",   patterns |-> <<KG_Friendship1, KG_Friendship2>>],
       [type |-> "ROMANTIC",     patterns |-> <<KG_Romantic1, KG_Romantic2>>],
       [type |-> "ANTAGONISTIC", patterns |-> <<KG_Antagonistic1, KG_Antagonistic2>>],
       [type |-> "LOCATED_IN",   patterns |-> <<KG_LocatedIn1, KG_LocatedIn2>>],
       [type |-> "OWNS",         patterns |-> <<KG_Owns1, KG_Owns2>>],
       [type |-> "MENTOR",       patterns |-> <<KG_Mentor1, KG_Mentor2>>] >>

(***************************************************************************)
(* Python values: Optional, insertion-ordered dict, fractions.             *)
(***************************************************************************)
\* Optional[T]: None is <<>>, a value v is <<v>>
None == <<>>
Some(v) == <<v>>
\* truthiness of an Optional[str]: None and "" are false
Truthy(o) == o # None /\ o[1] # ""

\* dict: the items [key, val] in insertion order
DictHas(d, key) == \E i \in DOMAIN d : d[i].key = key
DictGet(d, key) ==
    IF DictHas(d, key)
    THEN Some(d[CHOOSE i \in DOMAIN d : d[i].key = key].val)
    ELSE None
\* d[key] = val: a new key goes last, an old key keeps its place
DictSet(d, key, val) ==
    IF DictHas(d, key)
    THEN [i \in DOMAIN d |-> IF d[i].key = key THEN [key |-> key, val |-> val]
                                               ELSE d[i]]
    ELSE Append(d, [key |-> key, val |-> val])
DictValues(d) == [i \in DOMAIN d |-> d[i].val]
DictKeys(d) == [i \in DOMAIN d |-> d[i].key]

RECURSIVE Gcd(_, _)
Gcd(a, b) == IF b = 0 THEN a ELSE Gcd(b, a % b)
\* the number a / b (b > 0), in lowest terms
Ratio(a, b) == LET d == Gcd(a, b) IN [num |-> a \div d, den |-> b \div d]
Zero == Ratio(0, 1)

(***************************************************************************)
(* KnowledgeGraphBuilder.extract_entities                                  *)
(***************************************************************************)
skip_words ==
    {"The", "This", "That", "These", "Those", "What", "When", "Where",
     "Who", "How", "Why", "There", "Here", "Now", "Then", "But", "And",
     "Once", "Upon", "Time", "Day", "One", "She", "He", "It", "They"}

\* the common-word test of _should_skip_entity
KG_is_skip_word(name) == name \in skip_words

KG_should_skip_entity(name, entity_type) ==
    \/ Len(name) < 2
    \/ KG_is_skip_word(name)

\* a comparison that does not fold case
KG_name_key_exact(name) == name

\* the key under which two names are the same entity
KG_name_key(name) == StrLower(name)

KG_find_existing_entity(entities, name) ==
    LET hits == {i \in DOMAIN entities :
                   KG_name_key(entities[i].val.name) = KG_name_key(name)}
    IN  IF hits = {} THEN None
        ELSE Some(entities[CHOOSE i \in hits : \A j \in hits : i <= j].key)

RECURSIVE KG_pattern_matches(_, _, _, _)
\* the matches of patterns k.. of one entity type, in iteration order
KG_pattern_matches(info, k, ti, t) ==
    IF k > Len(info.patterns) THEN <<>>
    ELSE LET ms == FindIter(info.patterns[k], t, FALSE)
         IN  [j \in DOMAIN ms |-> [ti |-> ti, pi |-> k, m |-> ms[j]]]
               \o KG_pattern_matches(info, k + 1, ti, t)

RECURSIVE KG_entity_matches(_, _)
\* the matches the three nested loops of extract_entities visit, in order
KG_entity_matches(ti, t) ==
    IF ti > Len(entity_patterns) THEN <<>>
    ELSE KG_pattern_matches(entity_patterns[ti], 1, ti, t)
           \o KG_entity_matches(ti + 1, t)

\* name = match.group(1) if match.groups() else match.group()
KG_match_name(p, t, m) ==
    IF p.ngroups > 0
    THEN IF GroupIsNone(m, 1) THEN None ELSE Some(Group(t, m, 1))
    ELSE Some(Group0(t, m))

\* ids counted from one
KG_entity_id_from_one(counter) == "E" \o ToString(counter + 1)

\* f"E{entity_counter}"
KG_entity_id(counter) == "E" \o ToString(counter)

Entity(id, name, entity_type, attributes) ==
    [id |-> id, name |-> name, entity_type |-> entity_type,
     attributes |-> attributes, mentions |-> 1]

\* a new entity under the lower-cased name
KG_new_entity_folded(counter, name, entity_type, m) ==
    Entity(KG_entity_id(counter), StrLower(name), entity_type,
           [first_mention_pos |-> m.start])

KG_new_entity(counter, name, entity_type, m) ==
    Entity(KG_entity_id(counter), name, entity_type,
           [first_mention_pos |-> m.start])

\* a repeated mention that is not counted
KG_add_mention_lost(e) == e

\* entities[existing_id].mentions += 1
KG_add_mention(e) == [e EXCEPT !.mentions = @ + 1]

(***************************************************************************)
(* KnowledgeGraphBuilder.extract_relations                                 *)
(***************************************************************************)
RECURSIVE KG_entity_names(_, _, _)
\* {e.name.lower(): e.id for e in entities.values()}
KG_entity_names(vals, k, acc) ==
    IF k > Len(vals) THEN acc
    ELSE KG_entity_names(vals, k + 1,
                         DictSet(acc, StrLower(vals[k].name), vals[k].id))

Relation(source_id, target_id, relation_type, context) ==
    [source_id |-> source_id, target_id |-> target_id,
     relation_type |-> relation_type, confidence |-> Ratio(1, 1),
     context |-> context]

ContextLimit == 100
\* the whole match
KG_context_whole(s) == s

\* match.group()[:100]
KG_context(s) == SubSeq(s, 1, Min(ContextLimit, Len(s)))

\* the condition without the test for a self-relation
KG_link_ok_self(source_id, target_id) ==
    Truthy(source_id) /\ Truthy(target_id)

\* the condition under which a match with two resolved names is recorded
KG_link_ok(source_id, target_id) ==
    Truthy(source_id) /\ Truthy(target_id) /\ source_id # target_id

\* the captured name looked up as written, without lower()
KG_group_name_cased(t, m, n) ==
    IF GroupIsNone(m, n) THEN None ELSE Some(Strip(Group(t, m, n)))

\* groups[n - 1].strip().lower(); None when the group did not participate
\* (None.strip() raises AttributeError)
KG_group_name(t, m, n) ==
    IF GroupIsNone(m, n) THEN None ELSE Some(StrLower(Strip(Group(t, m, n))))

\* what one match does when a relation already recorded with the same source,
\* target and type is not recorded again
KG_match_relations_dedup(names, relation_type, p, t, m, acc) ==
    IF p.ngroups >= 2
    THEN LET source_name == KG_group_name(t, m, 1)
             target_name == KG_group_name(t, m, 2)
         IN  IF source_name = None \/ target_name = None
             THEN [acc EXCEPT !.raised = TRUE]
             ELSE LET source_id == DictGet(names, source_name[1])
                      target_id == DictGet(names, target_name[1])
                  IN  IF /\ KG_link_ok(source_id, target_id)
                         /\ \A i \in DOMAIN acc.relations :
                               <<acc.relations[i].source_id,
                                 acc.relations[i].target_id,
                                 acc.relations[i].relation_type>>
                                 # <<source_id[1], target_id[1], relation_type>>
                      THEN [acc EXCEPT !.relations =
                              Append(@, Relation(source_id[1], target_id[1],
                                                 relation_type,
                                                 KG_context(Group0(t, m))))]
                      ELSE acc
    ELSE acc

\* The loops of extract_relations carry acc = [raised, relations]: the list
\* so far, and whether an exception has ended the call.
\* what one match does
KG_match_relations(names, relation_type, p, t, m, acc) ==
    IF p.ngroups >= 2
    THEN LET source_name == KG_group_name(t, m, 1)
             target_name == KG_group_name(t, m, 2)
         IN  IF source_name = None \/ target_name = None
             THEN [acc EXCEPT !.raised = TRUE]
             ELSE LET source_id == DictGet(names, source_name[1])
                      target_id == DictGet(names, target_name[1])
                  IN  IF KG_link_ok(source_id, target_id)
                      THEN [acc EXCEPT !.relations =
                              Append(@, Relation(source_id[1], target_id[1],
                                                 relation_type,
                                                 KG_context(Group0(t, m))))]
                      ELSE acc
    ELSE acc

RECURSIVE KG_relations_of_matches(_, _, _, _, _, _, _)
\* for match in matches
KG_relations_of_matches(names, relation_type, p, t, ms, k, acc) ==
    IF k > Len(ms) \/ acc.raised THEN acc
    ELSE KG_relations_of_matches(names, relation_type, p, t, ms, k + 1,
             KG_match_relations(names, relation_type, p, t, ms[k], acc))

RECURSIVE KG_relations_of_patterns(_, _, _, _, _)
\* for pattern in patterns
KG_relations_of_patterns(names, info, t, k, acc) ==
    IF k > Len(info.patterns) \/ acc.raised THEN acc
    ELSE KG_relations_of_patterns(names, info, t, k + 1,
             KG_relations_of_matches(names, info.type, info.patterns[k], t,
                                     FindIter(info.patterns[k], t, TRUE), 1, acc))

RECURSIVE KG_relations_of_types(_, _, _, _)
\* for relation_type, patterns in self.relation_patterns.items()
KG_relations_of_types(names, t, ti, acc) ==
    IF ti > Len(relation_patterns) \/ acc.raised THEN acc
    ELSE KG_relations_of_types(names, t, ti + 1,
             KG_relations_of_patterns(names, relation_patterns[ti], t, 1, acc))

\* [raised |-> the call raised, relations |-> the list it returns otherwise]
KG_extract_relations(t, entities) ==
    KG_relations_of_types(KG_entity_names(DictValues(entities), 1, <<>>), t, 1,
                          [raised |-> FALSE, relations |-> <<>>])

(***************************************************************************)
(* KnowledgeGraphBuilder._build_graph_structure, _calculate_statistics     *)
(***************************************************************************)
RECURSIVE ReplaceChar(_, _, _)
\* str.replace(a, b) for one-character a and b
ReplaceChar(s, a, b) ==
    IF Len(s) = 0 THEN ""
    ELSE (IF SubSeq(s, 1, 1) = a THEN b ELSE SubSeq(s, 1, 1))
           \o ReplaceChar(SubSeq(s, 2, Len(s)), a, b)

IsCased(c) == c \in UpperCh \cup LowerCh

RECURSIVE TitleFrom(_, _)
\* str.title(): a letter after a non-letter is upper-cased, any other lower-cased
TitleFrom(s, prevCased) ==
    IF Len(s) = 0 THEN ""
    ELSE LET c == SubSeq(s, 1, 1)
         IN  (IF prevCased THEN LowerChar(c) ELSE UpperChar(c))
               \o TitleFrom(SubSeq(s, 2, Len(s)), IsCased(c))
Title(s) == TitleFrom(s, FALSE)

KG_node(entity_id, entity) ==
    [id |-> entity_id, label |-> entity.name, type |-> entity.entity_type,
     size |-> entity.mentions]

\* an edge labelled with the relation type, underscores replaced, as it is cased
KG_edge_untitled(relation) ==
    [source |-> relation.source_id, target |-> relation.target_id,
     type |-> relation.relation_type,
     label |-> ReplaceChar(relation.relation_type, "_", " ")]

KG_edge(relation) ==
    [source |-> relation.source_id, target |-> relation.target_id,
     type |-> relation.relation_type,
     label |-> Title(ReplaceChar(relation.relation_type, "_", " "))]

KG_build_graph_structure(entities, relations) ==
    LET nodes == [i \in DOMAIN entities |-> KG_node(entities[i].key, entities[i].val)]
        edges == [i \in DOMAIN relations |-> KG_edge(relations[i])]
    IN  [nodes |-> nodes, edges |-> edges,
         node_count |-> Len(nodes), edge_count |-> Len(edges)]

RECURSIVE CountByKey_present(_, _, _)
\* each key recorded with 1, however often it occurs
CountByKey_present(keys, i, counts) ==
    IF i > Len(keys) THEN counts
    ELSE CountByKey_present(keys, i + 1, DictSet(counts, keys[i], 1))

RECURSIVE CountByKey(_, _, _)
\* counts[k] = counts.get(k, 0) + 1 over keys[i..]
CountByKey(keys, i, counts) ==
    IF i > Len(keys) THEN counts
    ELSE LET old == DictGet(counts, keys[i])
         IN  CountByKey(keys, i + 1,
                        DictSet(counts, keys[i],
                                (IF old = None THEN 0 ELSE old[1]) + 1))

\* a descending sort that puts x before the elements of equal key
InsertDescPos_before_equal(s, x) == Cardinality({i \in DOMAIN s : s[i].mentions > x.mentions})

\* where sorted(..., reverse=True) puts x among the already sorted s: after
\* every element whose key is not smaller (the sort is stable)
InsertDescPos(s, x) == Cardinality({i \in DOMAIN s : s[i].mentions >= x.mentions})

RECURSIVE SortedByMentionsDesc(_, _, _)
\* sorted(vals, key=lambda x: x.mentions, reverse=True)
SortedByMentionsDesc(vals, i, acc) ==
    IF i > Len(vals) THEN acc
    ELSE LET k == InsertDescPos(acc, vals[i])
         IN  SortedByMentionsDesc(vals, i + 1,
                 SubSeq(acc, 1, k) \o <<vals[i]>> \o SubSeq(acc, k + 1, Len(acc)))

TopCount == 5

KG_top_entities(entities) ==
    LET sorted_entities == SortedByMentionsDesc(DictValues(entities), 1, <<>>)
        top == SubSeq(sorted_entities, 1, Min(TopCount, Len(sorted_entities)))
    IN  [i \in DOMAIN top |-> [name |-> top[i].name, mentions |-> top[i].mentions]]

\* the density of an undirected graph
KG_graph_density_undirected(n, e) == IF n > 1 THEN Ratio(2 * e, n * (n - 1)) ELSE Zero

\* the quotient taken whatever the number of entities: with fewer than two
\* the divisor is zero and no ratio comes out of it
KG_graph_density_unguarded(n, e) ==
    IF n * (n - 1) = 0 THEN [num |-> e, den |-> 0] ELSE Ratio(e, n * (n - 1))

\* the division of line 337 is evaluated and its divisor is zero
KG_density_zero_division(n) == n > 1 /\ n * (n - 1) = 0

\* len(relations) / (len(entities) * (len(entities) - 1)) if len(entities) > 1 else 0
KG_graph_density(n, e) == IF n > 1 THEN Ratio(e, n * (n - 1)) ELSE Zero

KG_calculate_statistics(entities, relations) ==
    [total_entities |-> Len(entities),
     total_relations |-> Len(relations),
     entity_types |->
        CountByKey([i \in DOMAIN entities |-> entities[i].val.entity_type], 1, <<>>),
     relation_types |->
        CountByKey([i \in DOMAIN relations |-> relations[i].relation_type], 1, <<>>),
     top_entities |-> KG_top_entities(entities),
     graph_density |-> KG_graph_density(Len(entities), Len(relations)),
     is_directed |-> TRUE]

KG_entity_to_dict(entity) ==
    [id |-> entity.id, name |-> entity.name, type |-> entity.entity_type,
     mentions |-> entity.mentions, attributes |-> entity.attributes]

KG_relation_to_dict(relation) ==
    [source |-> relation.source_id, target |-> relation.target_id,
     type |-> relation.relation_type, confidence |-> relation.confidence,
     context |-> relation.context]

\* the dictionary build returns
KG_result(entities, relations) ==
    [entities |-> [i \in DOMAIN entities |-> KG_entity_to_dict(entities[i].val)],
     relations |-> [i \in DOMAIN relations |-> KG_relation_to_dict(relations[i])],
     graph |-> KG_build_graph_structure(entities, relations),
     statistics |-> KG_calculate_statistics(entities, relations)]

(***************************************************************************)
(* EntityRecognizer: the pattern table, in declaration order.  weight is   *)
(* in hundredths (1.0 is 100), as every confidence is.                     *)
(***************************************************************************)
Digit == In(DigitCh)
\* \b(w1|w2|...)\b
NER_WordList(ws) == Pattern(Cat(<<WordB, Grp(1, Words(ws)), WordB>>), 1)

NER_Person1 ==
    Pattern(Cat(<<WordB,
                  Grp(1, Words(<<"Mr.", "Mrs.", "Ms.", "Dr.", "Prof.", "Professor",
                                 "Sir", "Lady", "Lord", "King", "Queen", "Prince",
                                 "Princess">>)),
                  Sp, Grp(2, CapWords)>>), 2)
NER_Person2 ==
    Pattern(Cat(<<WordB, Grp(1, CapWord), Sp, Grp(2, CapWord), WordB>>), 2)
NER_Person3 ==
    Pattern(Cat(<<Words(<<"said", "asked", "replied", "shouted">>), Sp,
                  Grp(1, CapWord)>>), 1)

NER_Location1 ==
    Pattern(Cat(<<Words(<<"in", "at", "to", "from", "near", "through">>), Sp,
                  OptThe, Grp(1, CapWords)>>), 1)
NER_Location2 ==
    Pattern(Cat(<<Grp(1, CapWord), Sp,
                  Words(<<"City", "Town", "Village", "Mountain", "River", "Lake",
                          "Sea", "Ocean", "Forest", "Valley", "Island">>)>>), 1)
NER_Location3 ==
    NER_WordList(<<"America", "Europe", "Asia", "Africa", "China", "Japan",
                   "England", "France", "Germany", "Italy", "Spain">>)

NER_Organization1 ==
    Pattern(Cat(<<Grp(1, CapWords), Sp,
                  Words(<<"Inc.", "Corp.", "Ltd.", "Company", "Corporation",
                          "Institute", "University", "Academy", "Guild",
                          "Order">>)>>), 1)
NER_Organization2 ==
    Pattern(Cat(<<Lit("the"), Sp, Grp(1, CapWords), Sp,
                  Words(<<"organization", "group", "team", "committee">>)>>), 1)

NER_Date1 ==
    Pattern(Cat(<<WordB,
                  Grp(1, Cat(<<Rep(Digit, 1, 2), Lit("/"), Rep(Digit, 1, 2),
                               Lit("/"), Rep(Digit, 2, 4)>>)),
                  WordB>>), 1)
NER_Date2 ==
    Pattern(Cat(<<WordB,
                  Grp(1, Words(<<"January", "February", "March", "April", "May",
                                 "June", "July", "August", "September",
                                 "October", "November", "December">>)),
                  Sp, Rep(Digit, 1, 2),
                  Opt(Cat(<<Opt(Lit(",")), Sp, Rep(Digit, 4, 4)>>)),
                  WordB>>), 1)
NER_Date3 ==
    Pattern(Cat(<<WordB, Grp(1, Rep(Digit, 4, 4)), WordB,
                  NotAhead(Cat(<<Star(In(SpaceCh)),
                                 Words(<<"people", "years", "times">>)>>))>>), 1)
NER_Date4 ==
    NER_WordList(<<"Monday", "Tuesday", "Wednesday", "Thursday", "Friday",
                   "Saturday", "Sunday">>)

NER_Time1 ==
    Pattern(Cat(<<WordB,
                  Grp(1, Cat(<<Rep(Digit, 1, 2), Lit(":"), Rep(Digit, 2, 2),
                               Opt(Cat(<<Lit(":"), Rep(Digit, 2, 2)>>)),
                               Opt(Cat(<<Star(In(SpaceCh)),
                                         Words(<<"AM", "PM", "am", "pm">>)>>))>>)),
                  WordB>>), 1)
NER_Time2 ==
    NER_WordList(<<"noon", "midnight", "morning", "afternoon", "evening",
                   "night", "dawn", "dusk">>)

NER_Quantity1 ==
    Pattern(Cat(<<WordB,
                  Grp(1, Cat(<<Plus(Digit),
                               Star(Cat(<<Lit(","), Rep(Digit, 3, 3)>>)),
                               Opt(Cat(<<Lit("."), Plus(Digit)>>))>>)),
                  Sp,
                  Alt(<<Stem("meter", "s"), Stem("kilometer", "s"),
                        Stem("mile", "s"), Lit("feet"), Stem("inche", "s"),
                        Stem("pound", "s"), Stem("kilogram", "s"),
                        Stem("dollar", "s"), Stem("euro", "s")>>),
                  WordB>>), 1)
NER_Quantity2 ==
    Pattern(Cat(<<WordB,
                  Grp(1, Words(<<"one", "two", "three", "four", "five", "six",
                                 "seven", "eight", "nine", "ten", "hundred",
                                 "thousand", "million", "billion">>)),
                  Sp, W, WordB>>), 1)

NER_Event1 ==
    Pattern(Cat(<<OptThe, Grp(1, CapWords), Sp,
                  Words(<<"War", "Battle", "Festival", "Ceremony", "Conference",
                          "Meeting", "Tournament">>)>>), 1)
NER_Event2 ==
    Pattern(Cat(<<OptThe, Grp(1, CapWord), Sp,
                  Words(<<"Revolution", "Rebellion", "Uprising">>)>>), 1)

NER_WorkOfArt1 ==
    Pattern(Cat(<<Lit("\""), Grp(1, Plus(NotIn({"\""}))), Lit("\"")>>), 1)
NER_WorkOfArt2 ==
    Pattern(Cat(<<Lit("'"), Grp(1, Plus(NotIn({"'"}))), Lit("'")>>), 1)
NER_WorkOfArt3 ==
    Pattern(Cat(<<Words(<<"book", "novel", "story", "poem", "song", "movie",
                          "film">>), Sp,
                  Words(<<"called", "titled", "named">>), Sp,
                  Grp(1, Cat(<<In(UpperCh), Plus(NotIn({".", "!", "?"}))>>))>>), 1)

NER_TypeInfo(type, patterns, context_words, weight) ==
    [type |-> type, patterns |-> patterns, context_words |-> context_words,
     weight |-> weight]

ner_entity_patterns ==
    << NER_TypeInfo("PERSON", <<NER_Person1, NER_Person2, NER_Person3>>,
                    <<"said", "asked", "told", "thought", "felt", "believed">>, 100),
       NER_TypeInfo("LOCATION", <<NER_Location1, NER_Location2, NER_Location3>>,
                    <<"lived", "traveled", "visited", "arrived", "departed",
                      "located">>, 90),
       NER_TypeInfo("ORGANIZATION", <<NER_Organization1, NER_Organization2>>,
                    <<"joined", "founded", "member", "organization", "company">>, 85),
       NER_TypeInfo("DATE", <<NER_Date1, NER_Date2, NER_Date3, NER_Date4>>,
                    <<"on", "in", "during", "since", "until", "date">>, 95),
       NER_TypeInfo("TIME", <<NER_Time1, NER_Time2>>,
                    <<"at", "around", "before", "after", "time">>, 90),
       NER_TypeInfo("QUANTITY", <<NER_Quantity1, NER_Quantity2>>,
                    <<"about", "approximately", "nearly", "exactly", "over",
                      "under">>, 85),
       NER_TypeInfo("EVENT", <<NER_Event1, NER_Event2>>,
                    <<"during", "after", "before", "celebrated", "occurred">>, 80),
       NER_TypeInfo("WORK_OF_ART", <<NER_WorkOfArt1, NER_WorkOfArt2, NER_WorkOfArt3>>,
                    <<"wrote", "read", "watched", "titled", "called">>, 75) >>

stop_words ==
    {"The", "This", "That", "These", "Those", "There", "Here",
     "What", "When", "Where", "Which", "Who", "How", "Why",
     "But", "And", "Or", "Not", "Just", "Only", "Even",
     "Once", "Upon", "Time", "Day", "One", "It", "Its",
     "She", "He", "They", "We", "You", "I", "My", "Your",
     "His", "Her", "Their", "Our", "Some", "Many", "Much",
     "First", "Last", "Next", "Then", "Now"}

(***************************************************************************)
(* EntityRecognizer.extract_entities                                       *)
(***************************************************************************)
\* re.IGNORECASE if entity_type in ['DATE', 'TIME'] else 0
NER_ignore_case(entity_type) == entity_type \in {"DATE", "TIME"}

\* what the loops visit for pattern pi of type ti when re.finditer raises
\* re.error: the raise itself, with no match
NER_raise(ti, pi) ==
    [ti |-> ti, pi |-> pi, m |-> [start |-> 0, end |-> 0, g |-> <<>>],
     raised |-> TRUE]

RECURSIVE NER_pattern_matches(_, _, _, _)
NER_pattern_matches(info, k, ti, t) ==
    IF k > Len(info.patterns) THEN <<>>
    ELSE IF ~Compiles(info.patterns[k])
    THEN <<NER_raise(ti, k)>> \o NER_pattern_matches(info, k + 1, ti, t)
    ELSE LET ms == FindIter(info.patterns[k], t, NER_ignore_case(info.type))
         IN  [j \in DOMAIN ms |->
                 [ti |-> ti, pi |-> k, m |-> ms[j], raised |-> FALSE]]
               \o NER_pattern_matches(info, k + 1, ti, t)

RECURSIVE NER_entity_matches(_, _, _)
\* what the three nested loops of extract_entities visit, in order, over the
\* pattern table of the instance
NER_entity_matches(table, ti, t) ==
    IF ti > Len(table) THEN <<>>
    ELSE NER_pattern_matches(table[ti], 1, ti, t)
           \o NER_entity_matches(table, ti + 1, t)

\* except re.error: continue, with the next pattern
NER_after_fault_abort(iter, k) == Len(iter)

NER_after_fault(iter, k) == k + 1

\* match.lastindex: the last capturing group that matched, 0 for None (no
\* pattern of the table nests groups)
LastIndex(m) ==
    LET matched == {n \in DOMAIN m.g : m.g[n] # NoGroup}
    IN  IF matched = {} THEN 0 ELSE CHOOSE n \in matched : \A k \in matched : k <= n

\* match.group(match.lastindex) if match.lastindex else match.group(), stripped
NER_entity_text(t, m) ==
    Strip(IF LastIndex(m) # 0 THEN Group(t, m, LastIndex(m)) ELSE Group0(t, m))

\* the tests without the one for a stop word
NER_rejected_unless_stop_word(entity_text, entity_type) ==
    \/ entity_text = ""
    \/ Len(entity_text) < 2 /\ entity_type \notin {"QUANTITY"}

\* the two "continue" tests on the entity text
NER_rejected(entity_text, entity_type) ==
    \/ entity_text = ""
    \/ entity_text \in stop_words
    \/ Len(entity_text) < 2 /\ entity_type \notin {"QUANTITY"}

\* only an identical span counts as seen
NER_apart_unless_equal(span, existing_span) == span # existing_span

\* two spans without a common position
NER_apart(span, existing_span) ==
    span[2] <= existing_span[1] \/ span[1] >= existing_span[2]

\* only a span inside a seen span counts as overlapping
NER_overlaps_contained(span, existing) ==
    \E existing_span \in existing :
        existing_span[1] <= span[1] /\ span[2] <= existing_span[2]

NER_overlaps_with_existing(span, existing) ==
    \E existing_span \in existing : ~NER_apart(span, existing_span)

ContextWindow == 50

NER_get_context(t, start, end) ==
    Slice(t, Max(0, start - ContextWindow), Min(Len(t), end + ContextWindow))

\* w in s
Contains(s, w) ==
    \E i \in 0..(Len(s) - Len(w)) : Slice(s, i, i + Len(w)) = w

ContextBoost == 10
MaxConfidence == 100
ShortLength == 3

\* base_confidence *= 0.8, round(base_confidence, 2): c is a multiple of five
\* hundredths, so the product is a whole number of hundredths
NER_short_penalty(c) == (c * 8) \div 10

\* the penalty of a short text applied to the boosted weight before the cap
NER_calculate_confidence_penalty_first(entity_text, entity_type, context, type_info) ==
    LET context_lower == StrLower(context)
        context_match ==
            Cardinality({i \in DOMAIN type_info.context_words :
                           Contains(context_lower, type_info.context_words[i])})
        boosted == type_info.weight + ContextBoost * context_match
        reduced == IF Len(entity_text) < ShortLength THEN NER_short_penalty(boosted)
                   ELSE boosted
    IN  IF context_match > 0 THEN Min(reduced, MaxConfidence) ELSE reduced

\* the boost without its min(..., 1.0)
NER_calculate_confidence_uncapped(entity_text, entity_type, context, type_info) ==
    LET context_lower == StrLower(context)
        context_match ==
            Cardinality({i \in DOMAIN type_info.context_words :
                           Contains(context_lower, type_info.context_words[i])})
        boosted == type_info.weight + ContextBoost * context_match
    IN  IF Len(entity_text) < ShortLength THEN NER_short_penalty(boosted)
        ELSE boosted

NER_calculate_confidence(entity_text, entity_type, context, type_info) ==
    LET base_confidence == type_info.weight
        context_lower == StrLower(context)
        context_match ==
            Cardinality({i \in DOMAIN type_info.context_words :
                           Contains(context_lower, type_info.context_words[i])})
        boosted == IF context_match > 0
                   THEN Min(base_confidence + ContextBoost * context_match,
                            MaxConfidence)
                   ELSE base_confidence
    IN  IF Len(entity_text) < ShortLength THEN NER_short_penalty(boosted)
        ELSE boosted

NER_entity_id(n) == "NE" \o ToString(n)

NamedEntity(id, entity_text, entity_type, start_pos, end_pos, confidence, context) ==
    [id |-> id, text |-> entity_text, entity_type |-> entity_type,
     start_pos |-> start_pos, end_pos |-> end_pos, confidence |-> confidence,
     attributes |-> <<>>, context |-> context]

\* the list left in the order of its appends
InsertAscPos_at_end(s, x) == Len(s)

\* where list.sort(key=start_pos) puts x among the already sorted s: after
\* every element whose key is not greater (the sort is stable)
InsertAscPos(s, x) == Cardinality({i \in DOMAIN s : s[i].start_pos <= x.start_pos})

RECURSIVE SortedByStart(_, _, _)
\* entities.sort(key=lambda e: e.start_pos)
SortedByStart(es, i, acc) ==
    IF i > Len(es) THEN acc
    ELSE LET k == InsertAscPos(acc, es[i])
         IN  SortedByStart(es, i + 1,
                 SubSeq(acc, 1, k) \o <<es[i]>> \o SubSeq(acc, k + 1, Len(acc)))

(***************************************************************************)
(* KnowledgeGraphBuilder._escape_cypher_string, to_cypher                  *)
(***************************************************************************)
\* the characters of the alphabet for which str.isprintable() is false
NonPrintableCh == {"\t", "\n", "\r", "\f"}
IsPrintable(c) == c \notin NonPrintableCh

RECURSIVE KeepPrintable(_)
\* ''.join(c for c in s if c.isprintable())
KeepPrintable(s) ==
    IF Len(s) = 0 THEN ""
    ELSE (IF IsPrintable(SubSeq(s, 1, 1)) THEN SubSeq(s, 1, 1) ELSE "")
           \o KeepPrintable(SubSeq(s, 2, Len(s)))

\* the two replacements in the other order
KG_escape_cypher_string_quotes_first(value) ==
    KeepPrintable(ReplaceChar(ReplaceChar(value, "'", "\\'"), "\\", "\\\\"))

KG_escape_cypher_string(value) ==
    KeepPrintable(ReplaceChar(ReplaceChar(value, "\\", "\\\\"), "'", "\\'"))

KG_cypher_node(node) ==
    "CREATE (n:" \o KG_escape_cypher_string(node.type)
      \o " {id: '" \o KG_escape_cypher_string(node.id)
      \o "', name: '" \o KG_escape_cypher_string(node.label)
      \o "', mentions: " \o ToString(node.size) \o "})"

KG_cypher_edge(edge) ==
    "MATCH (a {id: '" \o KG_escape_cypher_string(edge.source)
      \o "'}), (b {id: '" \o KG_escape_cypher_string(edge.target)
      \o "'}) CREATE (a)-[:" \o KG_escape_cypher_string(edge.type) \o "]->(b)"

RECURSIVE JoinWith(_, _)
\* sep.join(parts)
JoinWith(sep, parts) ==
    IF Len(parts) = 0 THEN ""
    ELSE IF Len(parts) = 1 THEN parts[1]
    ELSE parts[1] \o sep \o JoinWith(sep, Tail(parts))

KG_to_cypher(graph) ==
    JoinWith(";\n",
             [i \in DOMAIN graph.nodes |-> KG_cypher_node(graph.nodes[i])]
               \o [i \in DOMAIN graph.edges |-> KG_cypher_edge(graph.edges[i])])

(***************************************************************************)
(* KnowledgeGraphBuilder.to_graphml                                        *)
(***************************************************************************)
KG_graphml_declaration == "<?xml version=\"1.0\" encoding=\"UTF-8\"?>"

KG_graphml_head ==
    <<KG_graphml_declaration,
      "<graphml xmlns=\"http://graphml.graphdrawing.org/xmlns\">",
      "  <key id=\"label\" for=\"node\" attr.name=\"label\" attr.type=\"string\"/>",
      "  <key id=\"type\" for=\"node\" attr.name=\"type\" attr.type=\"string\"/>",
      "  <key id=\"reltype\" for=\"edge\" attr.name=\"type\" attr.type=\"string\"/>",
      "  <graph id=\"G\" edgedefault=\"directed\">">>

\* the four lines of a node, its values interpolated as they are
KG_graphml_node(node) ==
    <<"    <node id=\"" \o node.id \o "\">",
      "      <data key=\"label\">" \o node.label \o "</data>",
      "      <data key=\"type\">" \o node.type \o "</data>",
      "    </node>">>

\* the three lines of the edge that enumerate numbers i
KG_graphml_edge(i, edge) ==
    <<"    <edge id=\"e" \o ToString(i) \o "\" source=\"" \o edge.source
        \o "\" target=\"" \o edge.target \o "\">",
      "      <data key=\"reltype\">" \o edge.type \o "</data>",
      "    </edge>">>

RECURSIVE KG_graphml_nodes(_, _)
KG_graphml_nodes(nodes, i) ==
    IF i > Len(nodes) THEN <<>>
    ELSE KG_graphml_node(nodes[i]) \o KG_graphml_nodes(nodes, i + 1)

RECURSIVE KG_graphml_edges(_, _)
KG_graphml_edges(edges, i) ==
    IF i > Len(edges) THEN <<>>
    ELSE KG_graphml_edge(i - 1, edges[i]) \o KG_graphml_edges(edges, i + 1)

KG_to_graphml(graph) ==
    JoinWith("\n",
             KG_graphml_head \o KG_graphml_nodes(graph.nodes, 1)
               \o KG_graphml_edges(graph.edges, 1)
               \o <<"  </graph>", "</graphml>">>)

(***************************************************************************)
(* KnowledgeGraphBuilder.build as a function of the text: the locals of a  *)
(* call as a record, one step on them (a loop iteration of                 *)
(* extract_entities, its return, extract_relations, the assembly of the    *)
(* result), and the call run until it returns or raises.                   *)
(***************************************************************************)
KG_call(t) ==
    [text |-> t, pc |-> "entities", iter |-> KG_entity_matches(1, t), k |-> 0,
     entities |-> <<>>, counter |-> 0, relations |-> <<>>, result |-> None]

KG_step_entities(l) ==
    IF l.k >= Len(l.iter) THEN [l EXCEPT !.pc = "relations"]
    ELSE LET cur == l.iter[l.k + 1]
             entity_type == entity_patterns[cur.ti].type
             group == KG_match_name(entity_patterns[cur.ti].patterns[cur.pi],
                                    l.text, cur.m)
             name == Strip(group[1])
             existing_id == KG_find_existing_entity(l.entities, name)
         IN  IF group = None THEN [l EXCEPT !.pc = "raised"]
             ELSE IF KG_should_skip_entity(name, entity_type)
             THEN [l EXCEPT !.k = l.k + 1]
             ELSE IF Truthy(existing_id)
             THEN [l EXCEPT !.k = l.k + 1,
                            !.entities =
                                DictSet(l.entities, existing_id[1],
                                        KG_add_mention(DictGet(l.entities,
                                                               existing_id[1])[1]))]
             ELSE [l EXCEPT !.k = l.k + 1,
                            !.entities =
                                DictSet(l.entities, KG_entity_id(l.counter),
                                        KG_new_entity(l.counter, name, entity_type,
                                                      cur.m)),
                            !.counter = l.counter + 1]

KG_step(l) ==
    CASE l.pc = "entities" -> KG_step_entities(l)
      [] l.pc = "relations" ->
           LET call == KG_extract_relations(l.text, l.entities)
           IN  IF call.raised THEN [l EXCEPT !.pc = "raised"]
               ELSE [l EXCEPT !.pc = "assemble", !.relations = call.relations]
      [] l.pc = "assemble" ->
           [l EXCEPT !.pc = "done",
                     !.result = Some(KG_result(l.entities, l.relations))]

RECURSIVE KG_run(_)
KG_run(l) == IF l.pc \in {"done", "raised"} THEN l ELSE KG_run(KG_step(l))

\* build(t): whether it raises, and what it returns
KG_build(t) ==
    LET l == KG_run(KG_call(t))
    IN  [raised |-> l.pc = "raised", result |-> l.result]

(***************************************************************************)
(* EntityRecognizer.extract_entities as a function of the pattern table    *)
(* and the text: the locals of a call as a record, one loop iteration on   *)
(* them, and the call run to its return.                                   *)
(***************************************************************************)
NER_call(table, t) ==
    [text |-> t, table |-> table, pc |-> "extract",
     iter |-> NER_entity_matches(table, 1, t), k |-> 0,
     entities |-> <<>>, entity_id |-> 0, seen_spans |-> {}, result |-> None]

NER_step(l) ==
    IF l.k >= Len(l.iter)
    THEN LET sorted == SortedByStart(l.entities, 1, <<>>)
         IN  [l EXCEPT !.entities = sorted, !.result = Some(sorted), !.pc = "done"]
    ELSE LET cur == l.iter[l.k + 1]
             info == l.table[cur.ti]
             entity_text == NER_entity_text(l.text, cur.m)
             span == <<cur.m.start, cur.m.end>>
             context == NER_get_context(l.text, cur.m.start, cur.m.end)
             confidence == NER_calculate_confidence(entity_text, info.type, context, info)
         IN  IF cur.raised THEN [l EXCEPT !.k = NER_after_fault(l.iter, l.k)]
             ELSE IF NER_rejected(entity_text, info.type) THEN [l EXCEPT !.k = l.k + 1]
             ELSE IF NER_overlaps_with_existing(span, l.seen_spans)
             THEN [l EXCEPT !.k = l.k + 1]
             ELSE [l EXCEPT !.k = l.k + 1,
                            !.seen_spans = l.seen_spans \cup {span},
                            !.entities =
                                Append(l.entities,
                                       NamedEntity(NER_entity_id(l.entity_id), entity_text,
                                                   info.type, cur.m.start, cur.m.end,
                                                   confidence, context)),
                            !.entity_id = l.entity_id + 1]

RECURSIVE NER_run(_)
NER_run(l) == IF l.pc = "done" THEN l ELSE NER_run(NER_step(l))

\* the list extract_entities(t) returns on an instance whose table is table
NER_extract_entities(table, t) == NER_run(NER_call(table, t)).result[1]

(***************************************************************************)
(* EntityRecognizer.recognize: the stages after extract_entities, each a   *)
(* function of the list of entities.                                       *)
(***************************************************************************)
\* resolve_coreferences: entity.attributes['potential_coreferences'] = []
\* on every PERSON entity of the list, which is returned
NER_resolve_coreferences(t, entities) ==
    [i \in DOMAIN entities |->
        IF entities[i].entity_type = "PERSON"
        THEN [entities[i] EXCEPT
                !.attributes = DictSet(@, "potential_coreferences", <<>>)]
        ELSE entities[i]]

RECURSIVE NER_group_by_type_from(_, _, _)
NER_group_by_type_from(entities, i, by_type) ==
    IF i > Len(entities) THEN by_type
    ELSE LET entity == entities[i]
             old == DictGet(by_type, entity.entity_type)
             texts == IF old = None THEN <<>> ELSE old[1]
         IN  NER_group_by_type_from(entities, i + 1,
                 DictSet(by_type, entity.entity_type,
                         IF \E j \in DOMAIN texts : texts[j] = entity.text
                         THEN texts ELSE Append(texts, entity.text)))

\* _group_by_type: the distinct texts of each type, in order of appearance
NER_group_by_type(entities) == NER_group_by_type_from(entities, 1, <<>>)

RECURSIVE BeforeUnderscore(_)
\* k.split('_')[0]
BeforeUnderscore(k) ==
    IF Len(k) = 0 \/ SubSeq(k, 1, 1) = "_" THEN ""
    ELSE SubSeq(k, 1, 1) \o BeforeUnderscore(SubSeq(k, 2, Len(k)))

\* where sorted(items, key=lambda x: x[1], reverse=True) puts x among the
\* already sorted s (the sort is stable)
InsertCountPos(s, x) == Cardinality({i \in DOMAIN s : s[i].val >= x.val})

RECURSIVE SortedByCountDesc(_, _, _)
SortedByCountDesc(items, i, acc) ==
    IF i > Len(items) THEN acc
    ELSE LET k == InsertCountPos(acc, items[i])
         IN  SortedByCountDesc(items, i + 1,
                 SubSeq(acc, 1, k) \o <<items[i]>> \o SubSeq(acc, k + 1, Len(acc)))

(* The floats of the code are IEEE 754 binary64 numbers. A positive one is   *)
(* held as [m, e]: m its 53 significant binary digits from the first, a 1,  *)
(* to the last, e the exponent of the first, so that its value is           *)
(* 1.m[2]m[3]... * 2^e; 0.0 has no digits. Every operation gives the float  *)
(* nearest the exact result, the one with an even last digit at a tie.      *)
MantissaBits == 53

F64Zero == [m |-> <<>>, e |-> 0]

Zeros(n) == [i \in 1..n |-> 0]

RECURSIVE BitsOf(_)
\* the binary digits of the natural n from the first 1 on
BitsOf(n) == IF n = 0 THEN <<>> ELSE Append(BitsOf(n \div 2), n % 2)

\* bits without its leading zeros
StripZeros(bits) ==
    LET ones == {i \in DOMAIN bits : bits[i] = 1}
    IN  IF ones = {} THEN <<>>
        ELSE SubSeq(bits, CHOOSE i \in ones : \A j \in ones : i <= j, Len(bits))

RECURSIVE ValueOf(_)
\* the number whose binary digits are bits
ValueOf(bits) ==
    IF bits = <<>> THEN 0
    ELSE 2 * ValueOf(SubSeq(bits, 1, Len(bits) - 1)) + bits[Len(bits)]

\* the eight binary digits of v < 256
ByteOf(v) == [k \in 1..8 |-> (v \div ValueOf(<<1>> \o Zeros(8 - k))) % 2]

\* bits after as many zeros as make a whole number of bytes, n digits at least
InBytes(bits, n) == Zeros(8 * ((n + 7) \div 8) - Len(bits)) \o bits

RECURSIVE AddFrom(_, _, _, _, _)
\* a + b for two digit sequences of one length in whole bytes, a byte at a
\* time from the one that ends at digit i down, with the carry so far
AddFrom(a, b, i, carry, acc) ==
    IF i = 0 THEN <<carry>> \o acc
    ELSE LET s == ValueOf(SubSeq(a, i - 7, i)) + ValueOf(SubSeq(b, i - 7, i)) + carry
         IN  AddFrom(a, b, i - 8, s \div 256, ByteOf(s % 256) \o acc)

\* the digits of a + b from the first 1 on
AddBits(a, b) ==
    LET n == Max(Len(a), Len(b))
        x == InBytes(a, n)
    IN  StripZeros(AddFrom(x, InBytes(b, n), Len(x), 0, <<>>))

RECURSIVE DivFrom(_, _, _, _, _)
\* the long division by d of bits, a whole number of bytes, a byte at a time
\* from the one that starts at digit i on, with the remainder r so far
DivFrom(bits, d, i, r, acc) ==
    IF i > Len(bits) THEN [q |-> acc, r |-> r]
    ELSE LET v == 256 * r + ValueOf(SubSeq(bits, i, i + 7))
         IN  DivFrom(bits, d, i + 8, v % d, acc \o ByteOf(v \div d))

\* the float nearest a number whose digits from the first 1 on are bits, the
\* last of them worth 2^unit, followed by more that are not all zero when
\* inexact
F64Round(bits, inexact, unit) ==
    LET n == Len(bits)
        head == SubSeq(bits, 1, MantissaBits)
        rest == inexact \/ \E i \in (MantissaBits + 2)..n : bits[i] = 1
        up == /\ bits[MantissaBits + 1] = 1
              /\ rest \/ head[MantissaBits] = 1
        raised == AddBits(head, <<1>>)
    IN  IF n = 0 THEN F64Zero
        ELSE IF n <= MantissaBits
        THEN [m |-> bits \o Zeros(MantissaBits - n), e |-> unit + n - 1]
        ELSE IF ~up THEN [m |-> head, e |-> unit + n - 1]
        ELSE IF Len(raised) > MantissaBits
        THEN [m |-> SubSeq(raised, 1, MantissaBits), e |-> unit + n]
        ELSE [m |-> raised, e |-> unit + n - 1]

\* x + y of two floats
F64Add(x, y) ==
    IF x.m = <<>> THEN y
    ELSE IF y.m = <<>> THEN x
    ELSE LET low == Min(x.e, y.e)
             a == x.m \o Zeros(x.e - low)
             b == y.m \o Zeros(y.e - low)
         IN  F64Round(AddBits(a, b), FALSE, low - (MantissaBits - 1))

\* the float nearest (bits * 2^unit) / d for an int d > 0: the division is
\* carried far enough for the quotient to have its 53 digits and one more
F64Quotient(bits, unit, d) ==
    LET guard == MantissaBits + 1 + Len(BitsOf(d))
        res == DivFrom(InBytes(bits \o Zeros(guard), Len(bits) + guard), d, 1, 0, <<>>)
    IN  F64Round(StripZeros(res.q), res.r # 0, unit - guard)

\* x / n of a float and an int n > 0
F64DivInt(x, n) == F64Quotient(x.m, x.e - (MantissaBits - 1), n)

\* the float round(..., 2) returns for h hundredths: the nearest to h / 100
F64OfHundredths(h) == F64Quotient(BitsOf(h), 0, 100)

HexDigits == "0123456789abcdef"

\* the hexadecimal digit of the four binary digits of bits from k
HexOf(bits, k) ==
    LET v == 8 * bits[k] + 4 * bits[k + 1] + 2 * bits[k + 2] + bits[k + 3]
    IN  SubSeq(HexDigits, v + 1, v + 1)

\* float.hex() of x
FloatHex(x) ==
    IF x.m = <<>> THEN "0x0.0p+0"
    ELSE "0x1." \o JoinWith("", [k \in 1..((MantissaBits - 1) \div 4) |-> HexOf(x.m, 4 * k - 2)])
           \o "p" \o (IF x.e < 0 THEN "-" \o ToString(-x.e) ELSE "+" \o ToString(x.e))

RECURSIVE SumConfidence(_, _)
\* sum(e.confidence for e in entities[:n]): the int 0, to which the floats
\* are added one after the other
SumConfidence(entities, n) ==
    IF n = 0 THEN F64Zero
    ELSE F64Add(SumConfidence(entities, n - 1),
                F64OfHundredths(entities[n].confidence))

\* _calculate_statistics of the recognizer; average_confidence is the float
\* the division gives, held as the text float.hex() gives for it, or the
\* int 0 of a call without entities
NER_calculate_statistics(entities) ==
    LET type_counts ==
            CountByKey([i \in DOMAIN entities |-> entities[i].entity_type], 1, <<>>)
        entity_counts ==
            CountByKey([i \in DOMAIN entities |->
                          entities[i].text \o "_" \o entities[i].entity_type],
                       1, <<>>)
        sorted_counts == SortedByCountDesc(entity_counts, 1, <<>>)
        top_entities == SubSeq(sorted_counts, 1, Min(TopCount, Len(sorted_counts)))
    IN  [total_entities |-> Len(entities),
         type_distribution |-> type_counts,
         unique_entities |-> Cardinality({entities[i].text : i \in DOMAIN entities}),
         top_entities |->
            [i \in DOMAIN top_entities |->
                [entity |-> BeforeUnderscore(top_entities[i].key),
                 count |-> top_entities[i].val]],
         average_confidence |->
            IF entities # <<>>
            THEN [hex |-> FloatHex(F64DivInt(SumConfidence(entities, Len(entities)),
                                             Len(entities)))]
            ELSE Zero]

\* the characters of the type names, in code point order
TypeNameStr == UpperStr \o "_"
CodePoint(c) == CHOOSE j \in 1..Len(TypeNameStr) : SubSeq(TypeNameStr, j, j) = c

RECURSIVE StrBefore(_, _)
\* a < b for two str of type-name characters
StrBefore(a, b) ==
    IF Len(b) = 0 THEN FALSE
    ELSE IF Len(a) = 0 THEN TRUE
    ELSE IF SubSeq(a, 1, 1) # SubSeq(b, 1, 1)
    THEN CodePoint(SubSeq(a, 1, 1)) < CodePoint(SubSeq(b, 1, 1))
    ELSE StrBefore(SubSeq(a, 2, Len(a)), SubSeq(b, 2, Len(b)))

\* sorted(type_counts.items()): the keys are distinct, so by key
SortedByKey(items) ==
    [k \in DOMAIN items |->
        items[CHOOSE i \in DOMAIN items :
                Cardinality({j \in DOMAIN items : StrBefore(items[j].key, items[i].key)})
                  = k - 1]]

\* _generate_summary
NER_generate_summary(entities) ==
    IF entities = <<>> THEN "No named entities detected."
    ELSE LET type_counts ==
                 SortedByKey(CountByKey([i \in DOMAIN entities |->
                                           entities[i].entity_type], 1, <<>>))
         IN  JoinWith(" ",
                 <<"Detected " \o ToString(Len(entities)) \o " entities:">>
                   \o [i \in DOMAIN type_counts |->
                         ToString(type_counts[i].val) \o " " \o type_counts[i].key])

\* _entity_to_dict of the recognizer: context[:100] if context else ''
NER_entity_to_dict(entity) ==
    [id |-> entity.id, text |-> entity.text, type |-> entity.entity_type,
     start |-> entity.start_pos, end |-> entity.end_pos,
     confidence |-> entity.confidence,
     context |-> SubSeq(entity.context, 1, Min(100, Len(entity.context)))]

\* the dictionary recognize returns for the list its stages worked on
NER_recognize_result(entities) ==
    [entities |-> [i \in DOMAIN entities |-> NER_entity_to_dict(entities[i])],
     entities_by_type |-> NER_group_by_type(entities),
     statistics |-> NER_calculate_statistics(entities),
     summary |-> NER_generate_summary(entities)]

\* recognize(t) on an instance whose table is table
NER_recognize(table, t) ==
    NER_recognize_result(NER_resolve_coreferences(t, NER_extract_entities(table, t)))

(***************************************************************************)
(* The inputs: every text of at most MaxWords words of KG_Vocab, and the   *)
(* longer texts of KG_Scenarios.                                           *)
(***************************************************************************)
MaxWords == 3

KG_Vocab == {"Al", "al", "Bo", "the", "orb", "loves"}

RECURSIVE Joined(_, _)
\* the texts of exactly n words of vocab, separated by one space
Joined(vocab, n) ==
    IF n = 1 THEN vocab
    ELSE {t \o " " \o w : t \in Joined(vocab, n - 1), w \in vocab}

WordTexts(vocab, n) == {""} \cup UNION {Joined(vocab, k) : k \in 1..n}

KG_Scenarios ==
    {"Alice lived in Wonderland.",
     "Alice and Bob are friends. Bob and Alice are friends.",
     "  ",
     " \n\t ",
     "the al orb the AL orb",
     "Once Upon a Time Al loved Bo",
     "Once, Al met Bo and Al",
     "the old orb of Al",
     "Al loves Bo, Al loves Bo and Al has the old orb",
     "Al loved Bo and Al loves Bo",
     "Al loves Bo, Al loves Bo's friend",
     "Al and Bo and Cy and Di and Ed and Flo and Al"}

\* a text with a relation match of 11 characters and one of 110, the two
\* names of the latter 100 spaces apart
KG_LongTexts ==
    {"Al loves Bo and Al loves                                                                                                    Bo"}

KG_Texts == WordTexts(KG_Vocab, MaxWords) \cup KG_Scenarios \cup KG_LongTexts

NER_Vocab == {"King", "Al", "Bo", "in", "War", "The"}

NER_Scenarios ==
    {"Alice lived in Wonderland.",
     "Dr. Smith said Alice visited Paris on Monday at noon",
     "Dr. Smith met Al Bo in Paris on Monday",
     "in Paris, King Al",
     "Al The War 5 meters",
     "in Al Bo War \"a\" 5 meters"}

\* a text with a short name next to a context word in upper case, a context
\* word further than the window from it, and a match further than the window
\* from the start
NER_ContextTexts ==
    {"King Al SAID we saw a very old grey stone wall and a small red door and then asked a man near Rome"}

NER_Texts == WordTexts(NER_Vocab, MaxWords) \cup NER_Scenarios \cup NER_ContextTexts

(***************************************************************************)
(* The pattern tables of the recognizer: the one __init__ builds, and that *)
(* table with one pattern made malformed, tried on the texts of at most    *)
(* MaxFaultWords words and on the scenarios.                               *)
(***************************************************************************)
MaxFaultWords == 2

\* <<type, pattern>> places, first to last
NER_FaultPlaces == {<<1, 1>>, <<1, 2>>, <<2, 1>>, <<7, 1>>, <<8, 3>>}

NER_with_malformed(table, ti, pi) == [table EXCEPT ![ti].patterns[pi] = Malformed]

NER_FaultTexts == WordTexts(NER_Vocab, MaxFaultWords) \cup NER_Scenarios

NER_Tables(t) ==
    {ner_entity_patterns}
      \cup (IF t \in NER_FaultTexts
            THEN {NER_with_malformed(ner_entity_patterns, place[1], place[2]) :
                    place \in NER_FaultPlaces}
            ELSE {})

(***************************************************************************)
(* The inputs of _calculate_statistics: up to MaxEntities entities E0, E1, *)
(* ... with 1..MaxMentions mentions each and, when there are two entities  *)
(* to relate, up to MaxRelations relations from E0 to E1.                  *)
(***************************************************************************)
MaxEntities == 6
MaxMentions == 2
MaxRelations == 2

ST_Types == <<"PERSON", "LOCATION", "OBJECT">>

ST_entity(i, mentions) ==
    [id |-> KG_entity_id(i - 1), name |-> "N" \o ToString(i - 1),
     entity_type |-> ST_Types[((i - 1) % Len(ST_Types)) + 1],
     attributes |-> [first_mention_pos |-> 3 * (i - 1)], mentions |-> mentions]

ST_EntityInputs ==
    UNION {{[i \in 1..n |-> [key |-> KG_entity_id(i - 1), val |-> ST_entity(i, ms[i])]]
              : ms \in [1..n -> 1..MaxMentions]} : n \in 0..MaxEntities}

ST_RelationChoices ==
    {Relation("E0", "E1", "ROMANTIC", "N0 loves N1"),
     Relation("E0", "E1", "OWNS", "N0 has N1")}

ST_RelationInputs(entities) ==
    IF Len(entities) < 2 THEN {<<>>}
    ELSE UNION {[1..e -> ST_RelationChoices] : e \in 0..MaxRelations}

(***************************************************************************)
(* The inputs of the exporters: a graph of one node and one edge whose id  *)
(* and label are strings of at most MaxValueLen characters of EX_Alphabet. *)
(***************************************************************************)
MaxValueLen == 2

EX_Alphabet == {"a", "'", "\\", "\n"}

RECURSIVE Strings(_, _)
\* the strings of at most n characters of alphabet
Strings(alphabet, n) ==
    IF n = 0 THEN {""}
    ELSE Strings(alphabet, n - 1)
           \cup {t \o c : t \in Strings(alphabet, n - 1), c \in alphabet}

EX_Values == Strings(EX_Alphabet, MaxValueLen)

EX_graph(id, label) ==
    [nodes |-> <<[id |-> id, label |-> label, type |-> "PERSON", size |-> 1]>>,
     edges |-> <<[source |-> id, target |-> label, type |-> "OWNS",
                  label |-> "Owns"]>>,
     node_count |-> 1, edge_count |-> 1]

\* the characters XML reserves, and values that hold markup: an element, a
\* character reference
GX_Alphabet == {"a", "<", "&", "\""}

GX_Scenarios == {"<node id=\"x\"/>", "<edge id=\"e9\"/>", "Tom &amp; Co", "a > b"}

GX_Values == Strings(GX_Alphabet, MaxValueLen) \cup GX_Scenarios

\* graphs of n nodes E0, E1, ... and m edges from E0 to E1, as
\* _build_graph_structure makes them
MaxNodes == 2
MaxEdges == 2

EX_shape(n, m) ==
    [nodes |-> [i \in 1..n |->
                  [id |-> KG_entity_id(i - 1), label |-> "N" \o ToString(i - 1),
                   type |-> "PERSON", size |-> 1]],
     edges |-> [i \in 1..m |->
                  [source |-> "E0", target |-> "E1", type |-> "FRIENDSHIP",
                   label |-> "Friendship"]],
     node_count |-> n, edge_count |-> m]

EX_Shapes == {EX_shape(n, m) : n \in 0..MaxNodes, m \in 0..MaxEdges}

\* one node whose label holds a value of GX_Values, and no edge
GX_labelled(label) == [EX_shape(1, 0) EXCEPT !.nodes[1].label = label]

EX_GraphInputs ==
    {EX_graph(id, label) : id \in EX_Values, label \in EX_Values}
      \cup {EX_graph(id, label) : id \in GX_Values, label \in GX_Values}
      \cup {GX_labelled(label) : label \in GX_Values}
      \cup EX_Shapes

(***************************************************************************)
(* One invocation of KnowledgeGraphBuilder.build(text).                    *)
(*   kg_pc       where the invocation is: "entities" (in the loops of      *)
(*               extract_entities), "relations", "assemble", "done"        *)
(*               (returned), "raised" (left by an exception), "idle"       *)
(*   kg_iter     the matches the loops of extract_entities visit           *)
(*   kg_k        how many of them have been visited                        *)
(*   kg_entities, kg_counter   entities and entity_counter                 *)
(*   kg_relations              relations                                   *)
(*   kg_result   the returned dictionary, None before the return           *)
(***************************************************************************)
VARIABLES text, kg_pc, kg_iter, kg_k, kg_entities, kg_counter, kg_relations,
          kg_result

kg_vars == <<text, kg_pc, kg_iter, kg_k, kg_entities, kg_counter,
             kg_relations, kg_result>>

(***************************************************************************)
(* One invocation of EntityRecognizer.extract_entities(text).              *)
(*   ner_patterns  self.entity_patterns, the pattern table of the instance *)
(*   ner_pc      "extract" (in the loops), "done" (returned), "idle"       *)
(*   ner_iter    the matches the loops visit; ner_k how many were visited  *)
(*   ner_entities, ner_entity_id, seen_spans   the locals of the call      *)
(*   ner_result  the returned list, None before the return                 *)
(***************************************************************************)
VARIABLES ner_text, ner_pc, ner_iter, ner_k, ner_entities, ner_entity_id,
          seen_spans, ner_result, ner_patterns

ner_vars == <<ner_text, ner_pc, ner_iter, ner_k, ner_entities, ner_entity_id,
              seen_spans, ner_result, ner_patterns>>

(***************************************************************************)
(* One call of _calculate_statistics(entities, relations) on its own:      *)
(* st_entities and st_relations are its arguments, st_stats what it        *)
(* returns; st_pc is "call", "done", "raised" or "idle".                   *)
(***************************************************************************)
VARIABLES st_pc, st_entities, st_relations, st_stats

st_vars == <<st_pc, st_entities, st_relations, st_stats>>

(***************************************************************************)
(* One call of an exporter: ex_graph is its argument, ex_out the string it *)
(* returns; ex_pc is "call", "cypher" (to_cypher returned), "graphml"      *)
(* (to_graphml returned) or "idle".                                        *)
(***************************************************************************)
VARIABLES ex_pc, ex_graph, ex_out

ex_vars == <<ex_pc, ex_graph, ex_out>>

(***************************************************************************)
(* Two invocations on one analyzer instance, their steps interleaved.      *)
(*   cc_kind   "build" (a KnowledgeGraphBuilder and two calls of build) or *)
(*             "recognize" (an EntityRecognizer and two calls of           *)
(*             recognize), "none" when no instance is modelled             *)
(*   cc_heap   the memory: the objects, each at its address (its index)    *)
(*   cc_self   the attributes of the instance, each the address of an      *)
(*             object                                                      *)
(*   cc_calls  the locals of each invocation, [pc |-> "idle"] before it is *)
(*             called; a local that names a collection holds its address   *)
(*   cc_seq    the later invocation was called after the earlier returned  *)
(*             or raised                                                   *)
(***************************************************************************)
VARIABLES cc_kind, cc_self, cc_heap, cc_calls, cc_seq

cc_vars == <<cc_kind, cc_self, cc_heap, cc_calls, cc_seq>>

vars == <<kg_vars, ner_vars, st_vars, ex_vars, cc_vars>>

\* what an invocation of one component leaves alone
kg_others == <<ner_vars, st_vars, ex_vars, cc_vars>>
ner_others == <<kg_vars, st_vars, ex_vars, cc_vars>>
st_others == <<kg_vars, ner_vars, ex_vars, cc_vars>>
ex_others == <<kg_vars, ner_vars, st_vars, cc_vars>>
cc_others == <<kg_vars, ner_vars, st_vars, ex_vars>>

KG_Idle ==
    /\ text = ""
    /\ kg_pc = "idle"
    /\ kg_iter = <<>>
    /\ kg_k = 0
    /\ kg_entities = <<>>
    /\ kg_counter = 0
    /\ kg_relations = <<>>
    /\ kg_result = None

\* build(text) is called: entities = {}, entity_counter = 0
KG_Init ==
    /\ text \in KG_Texts
    /\ kg_pc = "entities"
    /\ kg_iter = KG_entity_matches(1, text)
    /\ kg_k = 0
    /\ kg_entities = <<>>
    /\ kg_counter = 0
    /\ kg_relations = <<>>
    /\ kg_result = None

\* the match the loops are at, its entity type and its pattern
KG_cur == kg_iter[kg_k + 1]
KG_cur_type == entity_patterns[KG_cur.ti].type
KG_cur_pattern == entity_patterns[KG_cur.ti].patterns[KG_cur.pi]
KG_cur_group == KG_match_name(KG_cur_pattern, text, KG_cur.m)
\* name = name.strip()
KG_cur_name == Strip(KG_cur_group[1])

KG_InLoop == kg_pc = "entities" /\ kg_k < Len(kg_iter)

\* name is None: name.strip() raises AttributeError, which nothing catches
KG_MatchRaises ==
    /\ KG_InLoop
    /\ KG_cur_group = None
    /\ kg_pc' = "raised"
    /\ UNCHANGED <<text, kg_iter, kg_k, kg_entities, kg_counter, kg_relations,
                   kg_result>>
    /\ UNCHANGED kg_others

\* _should_skip_entity: continue
KG_MatchSkipped ==
    /\ KG_InLoop
    /\ KG_cur_group # None
    /\ KG_should_skip_entity(KG_cur_name, KG_cur_type)
    /\ kg_k' = kg_k + 1
    /\ UNCHANGED <<text, kg_pc, kg_iter, kg_entities, kg_counter, kg_relations,
                   kg_result>>
    /\ UNCHANGED kg_others

\* existing_id: entities[existing_id].mentions += 1
KG_MatchMention ==
    /\ KG_InLoop
    /\ KG_cur_group # None
    /\ ~KG_should_skip_entity(KG_cur_name, KG_cur_type)
    /\ LET existing_id == KG_find_existing_entity(kg_entities, KG_cur_name)
       IN  /\ Truthy(existing_id)
           /\ kg_entities' =
                DictSet(kg_entities, existing_id[1],
                        KG_add_mention(DictGet(kg_entities, existing_id[1])[1]))
    /\ kg_k' = kg_k + 1
    /\ UNCHANGED <<text, kg_pc, kg_iter, kg_counter, kg_relations, kg_result>>
    /\ UNCHANGED kg_others

\* no existing_id: a new Entity under the next id
KG_MatchCreate ==
    /\ KG_InLoop
    /\ KG_cur_group # None
    /\ ~KG_should_skip_entity(KG_cur_name, KG_cur_type)
    /\ ~Truthy(KG_find_existing_entity(kg_entities, KG_cur_name))
    /\ kg_entities' =
         DictSet(kg_entities, KG_entity_id(kg_counter),
                 KG_new_entity(kg_counter, KG_cur_name, KG_cur_type, KG_cur.m))
    /\ kg_counter' = kg_counter + 1
    /\ kg_k' = kg_k + 1
    /\ UNCHANGED <<text, kg_pc, kg_iter, kg_relations, kg_result>>
    /\ UNCHANGED kg_others

\* the loops end: extract_entities returns entities
KG_EntitiesReturn ==
    /\ kg_pc = "entities"
    /\ kg_k = Len(kg_iter)
    /\ kg_pc' = "relations"
    /\ UNCHANGED <<text, kg_iter, kg_k, kg_entities, kg_counter, kg_relations,
                   kg_result>>
    /\ UNCHANGED kg_others

\* relations = self.extract_relations(text, entities)
KG_Relations ==
    /\ kg_pc = "relations"
    /\ LET call == KG_extract_relations(text, kg_entities)
       IN  IF call.raised
           THEN kg_pc' = "raised" /\ UNCHANGED kg_relations
           ELSE kg_pc' = "assemble" /\ kg_relations' = call.relations
    /\ UNCHANGED <<text, kg_iter, kg_k, kg_entities, kg_counter, kg_result>>
    /\ UNCHANGED kg_others

\* graph, statistics and the return of build
KG_Return ==
    /\ kg_pc = "assemble"
    /\ kg_result' = Some(KG_result(kg_entities, kg_relations))
    /\ kg_pc' = "done"
    /\ UNCHANGED <<text, kg_iter, kg_k, kg_entities, kg_counter, kg_relations>>
    /\ UNCHANGED kg_others

KG_Next ==
    \/ KG_MatchRaises
    \/ KG_MatchSkipped
    \/ KG_MatchMention
    \/ KG_MatchCreate
    \/ KG_EntitiesReturn
    \/ KG_Relations
    \/ KG_Return

NER_Idle ==
    /\ ner_text = ""
    /\ ner_pc = "idle"
    /\ ner_iter = <<>>
    /\ ner_k = 0
    /\ ner_entities = <<>>
    /\ ner_entity_id = 0
    /\ seen_spans = {}
    /\ ner_result = None
    /\ ner_patterns = ner_entity_patterns

\* extract_entities(text) is called: entities = [], entity_id = 0,
\* seen_spans = set()
NER_Init ==
    /\ ner_text \in NER_Texts
    /\ ner_patterns \in NER_Tables(ner_text)
    /\ ner_pc = "extract"
    /\ ner_iter = NER_entity_matches(ner_patterns, 1, ner_text)
    /\ ner_k = 0
    /\ ner_entities = <<>>
    /\ ner_entity_id = 0
    /\ seen_spans = {}
    /\ ner_result = None

\* the match the loops are at, its type info, its entity text and its span
NER_cur == ner_iter[ner_k + 1]
NER_cur_info == ner_patterns[NER_cur.ti]
NER_cur_text == NER_entity_text(ner_text, NER_cur.m)
NER_cur_span == <<NER_cur.m.start, NER_cur.m.end>>

NER_InLoop == ner_pc = "extract" /\ ner_k < Len(ner_iter)

\* re.finditer raises re.error on the pattern: except re.error: continue
NER_PatternRaises ==
    /\ NER_InLoop
    /\ NER_cur.raised
    /\ ner_k' = NER_after_fault(ner_iter, ner_k)
    /\ UNCHANGED <<ner_text, ner_pc, ner_iter, ner_entities, ner_entity_id,
                   seen_spans, ner_result, ner_patterns>>
    /\ UNCHANGED ner_others

\* empty, stop word or too short: continue
NER_CandidateRejected ==
    /\ NER_InLoop
    /\ ~NER_cur.raised
    /\ NER_rejected(NER_cur_text, NER_cur_info.type)
    /\ ner_k' = ner_k + 1
    /\ UNCHANGED <<ner_text, ner_pc, ner_iter, ner_entities, ner_entity_id,
                   seen_spans, ner_result, ner_patterns>>
    /\ UNCHANGED ner_others

\* _overlaps_with_existing: continue
NER_CandidateOverlaps ==
    /\ NER_InLoop
    /\ ~NER_cur.raised
    /\ ~NER_rejected(NER_cur_text, NER_cur_info.type)
    /\ NER_overlaps_with_existing(NER_cur_span, seen_spans)
    /\ ner_k' = ner_k + 1
    /\ UNCHANGED <<ner_text, ner_pc, ner_iter, ner_entities, ner_entity_id,
                   seen_spans, ner_result, ner_patterns>>
    /\ UNCHANGED ner_others

\* the span is recorded and the entity appended
NER_CandidateAccepted ==
    /\ NER_InLoop
    /\ ~NER_cur.raised
    /\ ~NER_rejected(NER_cur_text, NER_cur_info.type)
    /\ ~NER_overlaps_with_existing(NER_cur_span, seen_spans)
    /\ seen_spans' = seen_spans \cup {NER_cur_span}
    /\ LET context == NER_get_context(ner_text, NER_cur.m.start, NER_cur.m.end)
           confidence == NER_calculate_confidence(NER_cur_text, NER_cur_info.type,
                                                  context, NER_cur_info)
       IN  ner_entities' =
             Append(ner_entities,
                    NamedEntity(NER_entity_id(ner_entity_id), NER_cur_text,
                                NER_cur_info.type, NER_cur.m.start, NER_cur.m.end,
                                confidence, context))
    /\ ner_entity_id' = ner_entity_id + 1
    /\ ner_k' = ner_k + 1
    /\ UNCHANGED <<ner_text, ner_pc, ner_iter, ner_result, ner_patterns>>
    /\ UNCHANGED ner_others

\* the loops end: entities.sort(key=start_pos); return entities
NER_Return ==
    /\ ner_pc = "extract"
    /\ ner_k = Len(ner_iter)
    /\ ner_entities' = SortedByStart(ner_entities, 1, <<>>)
    /\ ner_result' = Some(ner_entities')
    /\ ner_pc' = "done"
    /\ UNCHANGED <<ner_text, ner_iter, ner_k, ner_entity_id, seen_spans,
                   ner_patterns>>
    /\ UNCHANGED ner_others

NER_Next ==
    \/ NER_PatternRaises
    \/ NER_CandidateRejected
    \/ NER_CandidateOverlaps
    \/ NER_CandidateAccepted
    \/ NER_Return

ST_Idle ==
    /\ st_pc = "idle"
    /\ st_entities = <<>>
    /\ st_relations = <<>>
    /\ st_stats = None

ST_Init ==
    /\ st_pc = "call"
    /\ st_entities \in ST_EntityInputs
    /\ st_relations \in ST_RelationInputs(st_entities)
    /\ st_stats = None

\* _calculate_statistics(entities, relations) returns, or raises
\* ZeroDivisionError
ST_Calculate ==
    /\ st_pc = "call"
    /\ IF KG_density_zero_division(Len(st_entities))
       THEN st_pc' = "raised" /\ st_stats' = None
       ELSE /\ st_stats' = Some(KG_calculate_statistics(st_entities, st_relations))
            /\ st_pc' = "done"
    /\ UNCHANGED <<st_entities, st_relations>>
    /\ UNCHANGED st_others

ST_Next == ST_Calculate

EX_Idle ==
    /\ ex_pc = "idle"
    /\ ex_graph = EX_graph("", "")
    /\ ex_out = None

EX_Init ==
    /\ ex_pc = "call"
    /\ ex_graph \in EX_GraphInputs
    /\ ex_out = None

\* to_cypher(graph) returns
EX_ToCypher ==
    /\ ex_pc = "call"
    /\ ex_out' = Some(KG_to_cypher(ex_graph))
    /\ ex_pc' = "cypher"
    /\ UNCHANGED ex_graph
    /\ UNCHANGED ex_others

\* to_graphml(graph) returns
EX_ToGraphml ==
    /\ ex_pc = "call"
    /\ ex_out' = Some(KG_to_graphml(ex_graph))
    /\ ex_pc' = "graphml"
    /\ UNCHANGED ex_graph
    /\ UNCHANGED ex_others

EX_Next == EX_ToCypher \/ EX_ToGraphml

Invocations == {1, 2}

\* the objects __init__ creates, at their addresses in the memory
CC_init_heap(kind) ==
    CASE kind = "build" -> <<entity_patterns, relation_patterns>>
      [] kind = "recognize" -> <<ner_entity_patterns, stop_words>>
      [] OTHER -> <<>>

\* the attributes __init__ sets on an instance, each the address of its
\* object (language and context_clues, which no method reads, are left out)
CC_instance(kind) ==
    CASE kind = "build" -> [entity_patterns |-> 1, relation_patterns |-> 2]
      [] kind = "recognize" -> [entity_patterns |-> 1, stop_words |-> 2]
      [] OTHER -> <<>>

CC_NotCalled == [pc |-> "idle"]

CC_Idle ==
    /\ cc_kind = "none"
    /\ cc_self = CC_instance("none")
    /\ cc_heap = CC_init_heap("none")
    /\ cc_calls = [i \in Invocations |-> CC_NotCalled]
    /\ cc_seq = FALSE

CC_Texts(kind) ==
    IF kind = "build"
    THEN {"", "Bo", "the orb", "Al loved Bo and Al loves Bo",
          "Alice lived in Wonderland."}
    ELSE {"", "Al Bo", "Dr. Smith met Al Bo in Paris on Monday"}

CC_Init ==
    /\ cc_kind \in {"build", "recognize"}
    /\ cc_self = CC_instance(cc_kind)
    /\ cc_heap = CC_init_heap(cc_kind)
    /\ cc_calls = [i \in Invocations |-> CC_NotCalled]
    /\ cc_seq = FALSE

CC_returned(l) == l.pc \in {"done", "raised"}
CC_running(l) == l.pc \notin {"idle", "done", "raised", "other_tables"}

\* no object
NoRef == 0
\* {} , [] or set() is evaluated: a new object, at an address no object has
NewObject(heap, obj) == [heap |-> Append(heap, obj), ref |-> Len(heap) + 1]

\* the machine after a step of a call: the attributes of the instance, the
\* memory, and the locals of the call
CC_machine(self, heap, l) == [self |-> self, heap |-> heap, l |-> l]

\* a step that found a table other than the one __init__ made: what the
\* call does from there is outside the model
CC_other_tables(self, heap, l) ==
    CC_machine(self, heap, [l EXCEPT !.pc = "other_tables"])

\* one dictionary of entities for the instance, made by the first call and
\* used as it is by every later one
KG_begin_kept(self, heap, t) ==
    LET first == Len(CC_init_heap("build")) + 1
        entities == IF Len(heap) >= first THEN [heap |-> heap, ref |-> first]
                    ELSE NewObject(heap, <<>>)
    IN  CC_machine(self, entities.heap,
                   [KG_call(t) EXCEPT !.entities = entities.ref, !.relations = NoRef]
                     @@ [returned |-> None])

\* build(t) enters extract_entities: entities = {} is a new dictionary and
\* entity_counter = 0; the locals hold the address of the dictionary
KG_begin(self, heap, t) ==
    LET entities == NewObject(heap, <<>>)
    IN  CC_machine(self, entities.heap,
                   [KG_call(t) EXCEPT !.entities = entities.ref, !.relations = NoRef]
                     @@ [returned |-> None])

\* the tables the steps of build read through self are those of __init__
KG_tables_intact(self, heap) ==
    /\ heap[self.entity_patterns] = entity_patterns
    /\ heap[self.relation_patterns] = relation_patterns

\* the locals of a call of build with the objects they refer to
KG_loaded(heap, l) ==
    [l EXCEPT !.entities = heap[l.entities],
              !.relations = IF l.relations = NoRef THEN <<>> ELSE heap[l.relations]]

\* what a step of build leaves in the memory, after being the locals as
\* the step left them with the objects they refer to: the dictionary
\* entities refers to is written, the list extract_relations returned is a
\* new object, and returned is the dictionary as extract_entities returned it
KG_stored(self, heap, l, after) ==
    LET written == [heap EXCEPT ![l.entities] = after.entities]
        relations == IF after.pc = "assemble"
                     THEN NewObject(written, after.relations)
                     ELSE [heap |-> written, ref |-> l.relations]
    IN  CC_machine(self, relations.heap,
            [after EXCEPT
               !.entities = l.entities,
               !.relations = relations.ref,
               !.returned = IF l.pc = "entities" /\ after.pc = "relations"
                            THEN Some(after.entities) ELSE @])

\* a step of build on the memory: it reads the tables through self and
\* works on the objects its locals refer to
KG_build_step(self, heap, l) ==
    IF ~KG_tables_intact(self, heap) THEN CC_other_tables(self, heap, l)
    ELSE KG_stored(self, heap, l, KG_step(KG_loaded(heap, l)))

\* seen_spans kept on the instance: every call sets it to a new empty set
\* and every call in progress reads and writes the set it finds there
NER_begin_on_self(self, heap, t) ==
    LET entities == NewObject(heap, <<>>)
        shared == Len(CC_init_heap("recognize")) + 2
        spans == IF Len(heap) >= shared
                 THEN [heap |-> [entities.heap EXCEPT ![shared] = {}],
                       ref |-> shared]
                 ELSE NewObject(entities.heap, {})
    IN  CC_machine(self, spans.heap,
                   [NER_call(heap[self.entity_patterns], t) EXCEPT
                      !.table = self.entity_patterns,
                      !.entities = entities.ref,
                      !.seen_spans = spans.ref])

\* recognize(t) enters extract_entities: entities = [] and seen_spans =
\* set() are new objects, entity_id = 0; the loops go over the table
\* self.entity_patterns refers to
NER_begin(self, heap, t) ==
    LET entities == NewObject(heap, <<>>)
        spans == NewObject(entities.heap, {})
    IN  CC_machine(self, spans.heap,
                   [NER_call(heap[self.entity_patterns], t) EXCEPT
                      !.table = self.entity_patterns,
                      !.entities = entities.ref,
                      !.seen_spans = spans.ref])

\* the locals of a call of recognize with the objects they refer to
NER_loaded(self, heap, l) ==
    [l EXCEPT !.table = heap[self.entity_patterns],
              !.entities = heap[l.entities],
              !.seen_spans = heap[l.seen_spans]]

\* what an iteration of extract_entities, or its sort and return, leaves in
\* the memory, after being the locals as the step left them with the objects
\* they refer to: the list and the set of spans are written
NER_stored(self, heap, l, after) ==
    CC_machine(self,
        [heap EXCEPT ![l.entities] = after.entities,
                     ![l.seen_spans] = after.seen_spans],
        [after EXCEPT
           !.table = l.table,
           !.entities = l.entities,
           !.seen_spans = l.seen_spans,
           !.result = None,
           !.pc = IF after.pc = "done" THEN "resolve" ELSE "extract"])

\* a step of recognize on the memory: a loop iteration of extract_entities
\* or its sort and return ("extract"), resolve_coreferences, which writes
\* the attributes of the entities of the list ("resolve"), and the grouping,
\* the statistics, the summary and the returned dictionary ("report")
NER_recognize_step(self, heap, l) ==
    IF heap[self.stop_words] # stop_words THEN CC_other_tables(self, heap, l)
    ELSE CASE l.pc = "extract" ->
                NER_stored(self, heap, l, NER_step(NER_loaded(self, heap, l)))
           [] l.pc = "resolve" ->
                CC_machine(self,
                    [heap EXCEPT ![l.entities] =
                        NER_resolve_coreferences(l.text, heap[l.entities])],
                    [l EXCEPT !.pc = "report"])
           [] l.pc = "report" ->
                CC_machine(self, heap,
                    [l EXCEPT !.result = Some(NER_recognize_result(heap[l.entities])),
                              !.pc = "done"])

\* the machine becomes next, the locals being those of invocation i
CC_Becomes(i, next) ==
    /\ cc_self' = next.self
    /\ cc_heap' = next.heap
    /\ cc_calls' = [cc_calls EXCEPT ![i] = next.l]

\* invocation i is called
CC_Call(i) ==
    /\ cc_calls[i].pc = "idle"
    /\ \E t \in CC_Texts(cc_kind) :
          CC_Becomes(i, IF cc_kind = "build" THEN KG_begin(cc_self, cc_heap, t)
                        ELSE NER_begin(cc_self, cc_heap, t))
    /\ cc_seq' = \E j \in Invocations : j # i /\ CC_returned(cc_calls[j])
    /\ UNCHANGED cc_kind
    /\ UNCHANGED cc_others

\* invocation i of build takes a step
CC_BuildStep(i) ==
    /\ cc_kind = "build"
    /\ CC_running(cc_calls[i])
    /\ CC_Becomes(i, KG_build_step(cc_self, cc_heap, cc_calls[i]))
    /\ UNCHANGED <<cc_kind, cc_seq>>
    /\ UNCHANGED cc_others

\* invocation i of recognize takes a step
CC_RecognizeStep(i) ==
    /\ cc_kind = "recognize"
    /\ CC_running(cc_calls[i])
    /\ CC_Becomes(i, NER_recognize_step(cc_self, cc_heap, cc_calls[i]))
    /\ UNCHANGED <<cc_kind, cc_seq>>
    /\ UNCHANGED cc_others

CC_Next ==
    \E i \in Invocations : CC_Call(i) \/ CC_BuildStep(i) \/ CC_RecognizeStep(i)

InitKG == KG_Init /\ NER_Idle /\ ST_Idle /\ EX_Idle /\ CC_Idle
SpecKG == InitKG /\ [][KG_Next]_vars

InitNER == NER_Init /\ KG_Idle /\ ST_Idle /\ EX_Idle /\ CC_Idle
SpecNER == InitNER /\ [][NER_Next]_vars

InitStats == ST_Init /\ KG_Idle /\ NER_Idle /\ EX_Idle /\ CC_Idle
SpecStats == InitStats /\ [][ST_Next]_vars

InitExport == EX_Init /\ KG_Idle /\ NER_Idle /\ ST_Idle /\ CC_Idle
SpecExport == InitExport /\ [][EX_Next]_vars

InitCalls == CC_Init /\ KG_Idle /\ NER_Idle /\ ST_Idle /\ EX_Idle
SpecCalls == InitCalls /\ [][CC_Next]_vars

(***************************************************************************)
(* Properties of build.                                                    *)
(***************************************************************************)
KG_Returned == kg_pc = "done"
KG_EntitiesReturned == kg_pc \in {"relations", "assemble", "done"}
KG_RelationsReturned == kg_pc \in {"assemble", "done"}
\* extract_relations has just returned: kg_relations is what it returned, and
\* text and kg_entities are its arguments; KG_Return leaves all three as
\* they are
KG_RelationsJustReturned == kg_pc = "assemble"

KG_ids == {kg_entities[i].val.id : i \in DOMAIN kg_entities}

\* the j-th match the loops visit: its pattern, its type, its name
KG_visit_pattern(j) == entity_patterns[kg_iter[j].ti].patterns[kg_iter[j].pi]
KG_visit_type(j) == entity_patterns[kg_iter[j].ti].type
KG_visit_group(j) == KG_match_name(KG_visit_pattern(j), text, kg_iter[j].m)
KG_visit_name(j) == Strip(KG_visit_group(j)[1])
\* the j-th match is neither skipped nor the one that raises
KG_visit_counted(j) ==
    /\ KG_visit_group(j) # None
    /\ ~KG_should_skip_entity(KG_visit_name(j), KG_visit_type(j))

\* C1: build(text) is total: no invocation is ever left by an exception.
C1_BuildNeverRaises == kg_pc # "raised"

\* the number of matches of relation patterns with two capturing groups
KG_two_group_matches(t) ==
    LET n(ti, pi) == IF relation_patterns[ti].patterns[pi].ngroups >= 2
                     THEN Len(FindIter(relation_patterns[ti].patterns[pi], t, TRUE))
                     ELSE 0
        RECURSIVE sum(_, _)
        sum(ti, pi) ==
            IF ti > Len(relation_patterns) THEN 0
            ELSE IF pi > Len(relation_patterns[ti].patterns) THEN sum(ti + 1, 1)
            ELSE n(ti, pi) + sum(ti, pi + 1)
    IN  sum(1, 1)

\* the invocation was left by an exception raised in extract_relations
KG_RaisedInRelations == kg_pc = "raised" /\ kg_k = Len(kg_iter)

\* C2: every relation extract_relations returns joins two different entities
\* of the entity set it was given, and no match makes extract_relations raise.
C2_RelationsValid ==
    /\ KG_RelationsReturned =>
         \A i \in DOMAIN kg_relations :
            /\ kg_relations[i].source_id \in KG_ids
            /\ kg_relations[i].target_id \in KG_ids
            /\ kg_relations[i].source_id # kg_relations[i].target_id
    /\ ~KG_RaisedInRelations

\* a relation was recorded, and another two-group match was dropped
C2_Witness ==
    /\ KG_Returned
    /\ Len(kg_relations) >= 1
    /\ Len(kg_relations) < KG_two_group_matches(text)

KG_no_two_names_equal_folded(entities) ==
    \A i, j \in DOMAIN entities :
        i # j => StrLower(entities[i].val.name) # StrLower(entities[j].val.name)

\* C5: coalescing folds case and is one-way.  In every step: an entity keeps
\* its place and its name; a match whose name, lower-cased, is that of an
\* existing entity adds no entity; and afterwards no two entities have names
\* that are equal when lower-cased.
C5_Coalescing ==
    [][ /\ \A i \in DOMAIN kg_entities :
              /\ i \in DOMAIN kg_entities'
              /\ kg_entities'[i].val.name = kg_entities[i].val.name
        /\ ( /\ KG_InLoop
             /\ KG_cur_group # None
             /\ \E i \in DOMAIN kg_entities :
                   StrLower(kg_entities[i].val.name) = StrLower(KG_cur_name) )
           => Len(kg_entities') = Len(kg_entities)
        /\ KG_no_two_names_equal_folded(kg_entities')
      ]_vars

\* a mention was merged into an entity whose name is cased differently
C5_Witness ==
    /\ kg_k >= 1
    /\ KG_visit_counted(kg_k)
    /\ \E i \in DOMAIN kg_entities :
          /\ kg_entities[i].val.name # KG_visit_name(kg_k)
          /\ StrLower(kg_entities[i].val.name) = StrLower(KG_visit_name(kg_k))
          /\ kg_entities[i].val.mentions >= 2

\* C6: at every point of the loops, and so on return, each entity's mentions is
\* at least 1 and is the number of visited matches, not skipped, whose name
\* lower-cased is the entity's name lower-cased.
C6_MentionCount ==
    kg_pc # "idle" =>
      \A i \in DOMAIN kg_entities :
         /\ kg_entities[i].val.mentions >= 1
         /\ kg_entities[i].val.mentions =
              Cardinality({j \in 1..kg_k :
                             /\ KG_visit_counted(j)
                             /\ StrLower(KG_visit_name(j)) =
                                  StrLower(kg_entities[i].val.name)})

\* returned entities, one mentioned once and one several times, with a
\* skipped match among those visited
C6_Witness ==
    /\ KG_EntitiesReturned
    /\ \E i \in DOMAIN kg_entities : kg_entities[i].val.mentions >= 2
    /\ \E i \in DOMAIN kg_entities : kg_entities[i].val.mentions = 1
    /\ \E j \in 1..kg_k :
          /\ KG_visit_group(j) # None
          /\ KG_should_skip_entity(KG_visit_name(j), KG_visit_type(j))

RECURSIVE KG_discovery_order(_, _)
\* the lower-cased names of the counted matches 1..n, each at its first
\* occurrence
KG_discovery_order(n, acc) ==
    IF n = 0 THEN acc
    ELSE LET before == KG_discovery_order(n - 1, acc)
         IN  IF KG_visit_counted(n)
                  /\ \A i \in DOMAIN before : before[i] # StrLower(KG_visit_name(n))
             THEN Append(before, StrLower(KG_visit_name(n)))
             ELSE before

\* C7: the n entities have the ids E0 .. E(n-1), each once, in discovery
\* order; the mapping iterates in that order under keys equal to the ids, and
\* so does the 'entities' list build returns.
C7_SequentialIds ==
    /\ kg_pc # "idle" =>
        /\ \A i \in DOMAIN kg_entities :
              /\ kg_entities[i].key = "E" \o ToString(i - 1)
              /\ kg_entities[i].val.id = kg_entities[i].key
        /\ [i \in DOMAIN kg_entities |-> StrLower(kg_entities[i].val.name)]
             = KG_discovery_order(kg_k, <<>>)
    /\ KG_Returned =>
        /\ Len(kg_result[1].entities) = Len(kg_entities)
        /\ \A i \in DOMAIN kg_entities :
              kg_result[1].entities[i].id = "E" \o ToString(i - 1)

\* build returned several entities, one of them mentioned again after a later
\* one was discovered
C7_Witness ==
    /\ KG_Returned
    /\ Len(kg_entities) >= 2
    /\ kg_entities[1].val.mentions >= 2

(***************************************************************************)
(* Properties of EntityRecognizer.extract_entities.                        *)
(***************************************************************************)
NER_Returned == ner_pc = "done"

\* a and b overlap
Intersects(a_start, a_end, b_start, b_end) == a_start < b_end /\ b_start < a_end

\* C3: no two entities of the list, during the loops and as returned, have
\* overlapping spans, whatever their types.
C3_NoOverlap ==
    \A i, j \in DOMAIN ner_entities :
        i # j => ~Intersects(ner_entities[i].start_pos, ner_entities[i].end_pos,
                             ner_entities[j].start_pos, ner_entities[j].end_pos)

\* the j-th candidate the loops visit
NER_visit_type(j) == ner_entity_patterns[ner_iter[j].ti].type
NER_visit_text(j) == NER_entity_text(ner_text, ner_iter[j].m)
\* it passed the tests on its text and overlaps an entity of another type
NER_visit_lost_to_other_type(j) ==
    /\ ~NER_rejected(NER_visit_text(j), NER_visit_type(j))
    /\ \E i \in DOMAIN ner_entities :
          /\ ner_entities[i].entity_type # NER_visit_type(j)
          /\ Intersects(ner_iter[j].m.start, ner_iter[j].m.end,
                        ner_entities[i].start_pos, ner_entities[i].end_pos)

\* entities of two types were returned, and a candidate of a third span was
\* discarded because it overlapped one of another type
C3_Witness ==
    /\ NER_Returned
    /\ \E i, j \in DOMAIN ner_entities :
          ner_entities[i].entity_type # ner_entities[j].entity_type
    /\ \E j \in 1..ner_k : NER_visit_lost_to_other_type(j)

\* C4: first-registered-pattern wins.  In every step: each accepted entity and
\* each recorded span is kept as it is (the final sort only reorders), and a
\* candidate whose interval intersects an accepted interval, of whatever
\* category, adds nothing.
C4_FirstWins ==
    [][ /\ \A i \in DOMAIN ner_entities :
              \E j \in DOMAIN ner_entities' : ner_entities'[j] = ner_entities[i]
        /\ seen_spans \subseteq seen_spans'
        /\ ( /\ NER_InLoop
             /\ \E i \in DOMAIN ner_entities :
                   Intersects(NER_cur.m.start, NER_cur.m.end,
                              ner_entities[i].start_pos, ner_entities[i].end_pos) )
           => /\ ner_entities' = ner_entities
              /\ seen_spans' = seen_spans
      ]_vars

\* the candidate just visited was discarded for overlapping an entity of
\* another category
C4_Witness ==
    /\ ner_pc = "extract"
    /\ ner_k >= 1
    /\ NER_visit_lost_to_other_type(ner_k)

(***************************************************************************)
(* Properties of _calculate_statistics                                     *)
(***************************************************************************)
ST_Returned == st_pc = "done"

ST_n == Len(st_entities)
ST_e == Len(st_relations)

\* two relations between the same ordered pair of entities
ST_multi_edge ==
    \E i, j \in DOMAIN st_relations :
        /\ i < j
        /\ st_relations[i].source_id = st_relations[j].source_id
        /\ st_relations[i].target_id = st_relations[j].target_id

\* C8: graph_density is e / (n * (n - 1)) when there are n > 1 entities and
\* 0 when n <= 1, e being the number of relations, each multi-edge counted;
\* the call never divides by zero.
C8_GraphDensity ==
    /\ st_pc # "raised"
    /\ ST_Returned =>
         LET d == st_stats[1].graph_density
         IN  /\ d.den > 0
             /\ IF ST_n > 1
                THEN d.num * (ST_n * (ST_n - 1)) = ST_e * d.den
                ELSE d.num = 0

\* a returned call on more than two entities and a multi-edge
C8_Witness ==
    /\ ST_Returned
    /\ ST_n > 2
    /\ ST_e > 1
    /\ ST_multi_edge
    /\ st_stats[1].graph_density.num > 0

\* the discovery index of the entity named name
ST_index(name) == CHOOSE i \in DOMAIN st_entities : st_entities[i].val.name = name

ST_top == st_stats[1].top_entities

ST_listed(i) == \E k \in DOMAIN ST_top : ST_top[k].name = st_entities[i].val.name

\* C9: top_entities has min(5, n) entries, each an entity with its mention
\* count, in non-increasing order of mentions, entities of equal mentions in
\* discovery order; no omitted entity has more mentions than a listed one.
C9_TopEntities ==
    ST_Returned =>
        /\ Len(ST_top) = Min(5, ST_n)
        /\ \A k \in DOMAIN ST_top :
              \E i \in DOMAIN st_entities :
                  /\ st_entities[i].val.name = ST_top[k].name
                  /\ st_entities[i].val.mentions = ST_top[k].mentions
        /\ \A k, l \in DOMAIN ST_top :
              k < l =>
                  /\ ST_top[k].mentions >= ST_top[l].mentions
                  /\ ST_top[k].mentions = ST_top[l].mentions
                       => ST_index(ST_top[k].name) < ST_index(ST_top[l].name)
        /\ \A i \in DOMAIN st_entities :
              ~ST_listed(i) =>
                  \A k \in DOMAIN ST_top :
                      st_entities[i].val.mentions <= ST_top[k].mentions

\* a returned call on more than five entities in which the sort moved a
\* later entity ahead of an earlier one, two listed entities tie, and an
\* entity is omitted
C9_Witness ==
    /\ ST_Returned
    /\ ST_n > 5
    /\ \E i \in DOMAIN st_entities : ~ST_listed(i)
    /\ \E k, l \in DOMAIN ST_top :
          k < l /\ ST_index(ST_top[k].name) > ST_index(ST_top[l].name)
    /\ \E k, l \in DOMAIN ST_top :
          k < l /\ ST_top[k].mentions = ST_top[l].mentions

(***************************************************************************)
(* Properties of to_cypher                                                 *)
(***************************************************************************)
EX_CypherReturned == ex_pc = "cypher"

\* the number of characters of s that are c
CountChar(s, c) == Cardinality({i \in 0..(Len(s) - 1) : CharAt(s, i) = c})

RECURSIVE BackslashesBefore(_, _, _)
\* the number of consecutive backslashes of s that end just before offset i
\* and start at offset from or later
BackslashesBefore(s, from, i) ==
    IF i <= from \/ CharAt(s, i - 1) # "\\" THEN 0
    ELSE 1 + BackslashesBefore(s, from, i - 1)

RECURSIVE Unescaped(_)
\* the value of the literal text raw: a backslash stands for the character
\* after it
Unescaped(raw) ==
    IF Len(raw) = 0 THEN ""
    ELSE IF CharAt(raw, 0) = "\\" /\ Len(raw) > 1
    THEN CharAt(raw, 1) \o Unescaped(Slice(raw, 2, Len(raw)))
    ELSE CharAt(raw, 0) \o Unescaped(Slice(raw, 1, Len(raw)))

RECURSIVE CypherLiterals(_, _)
\* The single-quoted string literals of the script s from offset i on, as a
\* Cypher lexer reads them: a literal runs from a quote to the next quote
\* that no backslash escapes, and a backslash escapes the character after
\* it.  The result lists the text and the value of each literal, and
\* whether the script ends outside one.
CypherLiterals(s, i) ==
    LET opening == {j \in i..(Len(s) - 1) : CharAt(s, j) = "'"}
    IN  IF opening = {} THEN [closed |-> TRUE, literals |-> <<>>]
        ELSE LET o == CHOOSE j \in opening : \A k \in opening : j <= k
                 closing == {j \in (o + 1)..(Len(s) - 1) :
                                /\ CharAt(s, j) = "'"
                                /\ BackslashesBefore(s, o + 1, j) % 2 = 0}
             IN  IF closing = {} THEN [closed |-> FALSE, literals |-> <<>>]
                 ELSE LET c == CHOOSE j \in closing : \A k \in closing : j <= k
                          raw == Slice(s, o + 1, c)
                          rest == CypherLiterals(s, c + 1)
                      IN  [closed |-> rest.closed,
                           literals |-> <<[raw |-> raw, value |-> Unescaped(raw)]>>
                                          \o rest.literals]

\* raw is value escaped: its quotes each follow an odd number of
\* backslashes, its other backslashes are those of value doubled, and it
\* holds no non-printable character
EX_escaped(raw, value) ==
    /\ \A i \in 0..(Len(raw) - 1) :
          /\ CharAt(raw, i) = "'" => BackslashesBefore(raw, 0, i) % 2 = 1
          /\ IsPrintable(CharAt(raw, i))
    /\ CountChar(raw, "\\") = 2 * CountChar(value, "\\") + CountChar(value, "'")
    /\ CountChar(raw, "'") = CountChar(value, "'")

\* the string values that to_cypher embeds between quotes, in output order
EX_embedded ==
    LET nodes == ex_graph.nodes
        edges == ex_graph.edges
    IN  [k \in 1..(2 * Len(nodes)) |->
            IF k % 2 = 1 THEN nodes[(k + 1) \div 2].id ELSE nodes[k \div 2].label]
          \o [k \in 1..(2 * Len(edges)) |->
                IF k % 2 = 1 THEN edges[(k + 1) \div 2].source
                ELSE edges[k \div 2].target]

\* C10: in the script to_cypher returns, the text between the quotes that
\* enclose each embedded value (node id, node label, edge source, edge
\* target) has every quote after an odd number of backslashes, the value's
\* backslashes doubled and no non-printable character, so that the script
\* reads as exactly those literals, each worth its value without its
\* non-printable characters.
C10_CypherEscaping ==
    EX_CypherReturned =>
        LET lexed == CypherLiterals(ex_out[1], 0)
        IN  /\ lexed.closed
            /\ Len(lexed.literals) = Len(EX_embedded)
            /\ \A k \in DOMAIN EX_embedded :
                  /\ lexed.literals[k].value = KeepPrintable(EX_embedded[k])
                  /\ EX_escaped(lexed.literals[k].raw, EX_embedded[k])

\* a returned script whose node label is a backslash followed by a quote
\* and whose node id holds a quote and a newline
C10_Witness ==
    /\ EX_CypherReturned
    /\ ex_graph.nodes # <<>>
    /\ ex_graph.nodes[1].label = "\\'"
    /\ ex_graph.nodes[1].id = "'\n"

(***************************************************************************)
(* Properties of to_graphml                                                *)
(***************************************************************************)
EX_GraphmlReturned == ex_pc = "graphml"

\* the offsets of s at which w occurs
Occurrences(s, w) == {i \in 0..(Len(s) - Len(w)) : Slice(s, i, i + Len(w)) = w}

\* the k-th smallest element of the set of numbers S, k from 1
Nth(S, k) == CHOOSE p \in S : Cardinality({r \in S : r < p}) = k - 1

\* graph with every string value emptied: what is left of the document is
\* the markup to_graphml itself writes
EX_blank(graph) ==
    [nodes |-> [i \in DOMAIN graph.nodes |->
                  [id |-> "", label |-> "", type |-> "", size |-> graph.nodes[i].size]],
     edges |-> [i \in DOMAIN graph.edges |->
                  [source |-> "", target |-> "", type |-> "", label |-> ""]],
     node_count |-> graph.node_count, edge_count |-> graph.edge_count]

\* the string values that to_graphml interpolates
GX_embedded(graph) ==
    [k \in 1..(3 * Len(graph.nodes)) |->
        LET node == graph.nodes[((k - 1) \div 3) + 1]
        IN  CASE k % 3 = 1 -> node.id [] k % 3 = 2 -> node.label [] OTHER -> node.type]
      \o [k \in 1..(3 * Len(graph.edges)) |->
            LET edge == graph.edges[((k - 1) \div 3) + 1]
            IN  CASE k % 3 = 1 -> edge.source [] k % 3 = 2 -> edge.target
                  [] OTHER -> edge.type]

\* the number of characters of the values of seq that are in chars
RECURSIVE CountIn(_, _)
CountIn(seq, chars) ==
    IF Len(seq) = 0 THEN 0
    ELSE Cardinality({i \in 0..(Len(seq[1]) - 1) : CharAt(seq[1], i) \in chars})
           + CountIn(Tail(seq), chars)

XmlReferences == {"&lt;", "&gt;", "&amp;", "&quot;", "&apos;"}

\* an XML reference starts at offset i of s
IsReferenceAt(s, i) == \E r \in XmlReferences : Slice(s, i, Min(Len(s), i + Len(r))) = r

\* C11: in the document to_graphml returns, the characters '<', '&' and '"'
\* of the interpolated values are escaped: the only '<' and '"' of the
\* document are those of its own markup, every '&' starts a reference, and
\* there is a reference for each reserved character of a value.
C11_GraphmlEscaped ==
    EX_GraphmlReturned =>
        LET out == ex_out[1]
            markup == KG_to_graphml(EX_blank(ex_graph))
        IN  /\ CountChar(out, "<") = CountChar(markup, "<")
            /\ CountChar(out, "\"") = CountChar(markup, "\"")
            /\ \A i \in Occurrences(out, "&") : IsReferenceAt(out, i)
            /\ CountChar(out, "&") >= CountIn(GX_embedded(ex_graph), {"<", "&", "\""})

\* C12: the document to_graphml returns for n nodes and m edges begins with
\* the XML declaration and holds exactly n node elements, the i-th carrying
\* the id of the i-th node, then exactly m edge elements, the i-th with id
\* e(i-1), every node element before every edge element.
C12_GraphmlStructure ==
    EX_GraphmlReturned =>
        LET out == ex_out[1]
            nodes == ex_graph.nodes
            edges == ex_graph.edges
            node_at == Occurrences(out, "<node ")
            edge_at == Occurrences(out, "<edge ")
            node_tag(i) == "<node id=\"" \o nodes[i].id \o "\">"
            edge_tag(i) == "<edge id=\"e" \o ToString(i - 1) \o "\" "
        IN  /\ Slice(out, 0, Min(Len(out), Len(KG_graphml_declaration)))
                 = KG_graphml_declaration
            /\ Cardinality(node_at) = Len(nodes)
            /\ Cardinality(edge_at) = Len(edges)
            /\ \A p \in node_at : \A r \in edge_at : p < r
            /\ Cardinality(node_at) = Len(nodes) =>
                 \A i \in DOMAIN nodes :
                     Slice(out, Nth(node_at, i),
                           Min(Len(out), Nth(node_at, i) + Len(node_tag(i))))
                       = node_tag(i)
            /\ Cardinality(edge_at) = Len(edges) =>
                 \A i \in DOMAIN edges :
                     Slice(out, Nth(edge_at, i),
                           Min(Len(out), Nth(edge_at, i) + Len(edge_tag(i))))
                       = edge_tag(i)

(***************************************************************************)
(* Properties of the confidence of named entities                          *)
(***************************************************************************)
\* the type_info of entity type type
NER_info_of(type) ==
    ner_entity_patterns[CHOOSE i \in DOMAIN ner_entity_patterns :
                            ner_entity_patterns[i].type = type]

\* the number of context words of its type that the context of e holds
NER_context_match(e) ==
    LET words == NER_info_of(e.entity_type).context_words
    IN  Cardinality({i \in DOMAIN words : Contains(StrLower(e.context), words[i])})

\* C13: every entity extract_entities holds or returns has a confidence
\* between 0 and 1 (confidences are in hundredths).
C13_ConfidenceBounds ==
    \A i \in DOMAIN ner_entities :
        /\ 0 <= ner_entities[i].confidence
        /\ ner_entities[i].confidence <= 100

\* a returned entity whose weight and context boost add up to more than 1
C13_Witness ==
    /\ NER_Returned
    /\ \E i \in DOMAIN ner_entities :
          LET e == ner_entities[i]
          IN  /\ NER_context_match(e) > 0
              /\ NER_info_of(e.entity_type).weight + 10 * NER_context_match(e) > 100
              /\ Len(e.text) >= 3
              /\ e.confidence = 100

(***************************************************************************)
(* Properties of the handling of a malformed pattern                       *)
(***************************************************************************)
\* the patterns of table that compile, the others removed
NER_without_malformed(table) ==
    [ti \in DOMAIN table |->
        [table[ti] EXCEPT !.patterns = SelectSeq(table[ti].patterns, Compiles)]]

NER_faulty == ner_patterns # NER_without_malformed(ner_patterns)

\* C14: with one malformed pattern in the table, extract_entities returns,
\* and returns what it returns with that pattern removed from the table: the
\* pattern alone is skipped, what was accepted before it is kept and the
\* patterns and types after it are processed.
C14_FaultIsolation ==
    /\ ner_pc \in {"extract", "done", "idle"}
    /\ (NER_Returned /\ NER_faulty) =>
          ner_result = Some(NER_extract_entities(NER_without_malformed(ner_patterns),
                                                 ner_text))

\* a call returned on a table with a malformed pattern, with an entity
\* accepted before the fault and one after it, where the pattern would have
\* changed the result had it compiled
C14_Witness ==
    /\ NER_Returned
    /\ NER_faulty
    /\ \E f \in DOMAIN ner_iter :
          /\ ner_iter[f].raised
          /\ \E i, j \in DOMAIN ner_iter :
                /\ i < f /\ f < j
                /\ \E a, b \in DOMAIN ner_entities :
                      /\ ner_entities[a].start_pos = ner_iter[i].m.start
                      /\ ner_entities[a].end_pos = ner_iter[i].m.end
                      /\ ner_entities[b].start_pos = ner_iter[j].m.start
                      /\ ner_entities[b].end_pos = ner_iter[j].m.end
    /\ ner_result # Some(NER_extract_entities(ner_entity_patterns, ner_text))

(***************************************************************************)
(* Properties of two invocations on one instance                           *)
(***************************************************************************)
\* extract_entities of invocation i of build has returned
CC_entities_returned(i) == cc_calls[i].pc # "idle" /\ cc_calls[i].returned # None

\* C15: of two calls on one builder with the same text, the second made
\* after the first has returned, the entity extractions return the same
\* dictionary, each as it is when returned: as many entities, with the same
\* ids, names, types and mention counts.
C15_Repeatable ==
    ( /\ cc_kind = "build"
      /\ cc_seq
      /\ \A i \in Invocations : CC_entities_returned(i)
      /\ cc_calls[1].text = cc_calls[2].text )
    => cc_calls[1].returned = cc_calls[2].returned

\* two such calls returned, with two entities, one of them mentioned twice,
\* each call with a dictionary of its own in the memory
C15_Witness ==
    /\ cc_kind = "build"
    /\ cc_seq
    /\ \A i \in Invocations : cc_calls[i].pc = "done"
    /\ cc_calls[1].text = cc_calls[2].text
    /\ cc_calls[1].entities # cc_calls[2].entities
    /\ LET entities == cc_calls[2].returned[1]
       IN  /\ Len(entities) >= 2
           /\ \E k \in DOMAIN entities : entities[k].val.mentions >= 2
           /\ cc_heap[cc_calls[1].entities] = entities

\* what a call on text t returns, or that it raises, when it is the only
\* call on an instance of its kind
CC_alone(kind, t) ==
    IF kind = "build"
    THEN LET call == KG_build(t)
         IN  [pc |-> IF call.raised THEN "raised" ELSE "done", result |-> call.result]
    ELSE [pc |-> "done", result |-> Some(NER_recognize(ner_entity_patterns, t))]

\* C16: however the steps of two invocations on one instance interleave,
\* each returns what it returns alone (or raises as it does alone), and the
\* attributes of the instance and the tables they refer to stay as __init__
\* made them.
C16_Isolation ==
    /\ cc_self = CC_instance(cc_kind)
    /\ \A a \in DOMAIN CC_init_heap(cc_kind) : cc_heap[a] = CC_init_heap(cc_kind)[a]
    /\ \A i \in Invocations :
          /\ cc_calls[i].pc # "other_tables"
          /\ CC_returned(cc_calls[i]) =>
                [pc |-> cc_calls[i].pc, result |-> cc_calls[i].result]
                  = CC_alone(cc_kind, cc_calls[i].text)

\* a call of recognize has returned two entities or more, resolve_coreferences
\* having written the attributes of a PERSON of its list, while the other
\* call, begun before that return on another text, is in its loops with
\* entities and spans of its own in the memory
C16_Witness ==
    /\ ~cc_seq
    /\ cc_kind = "recognize"
    /\ \E i, j \in Invocations :
          /\ cc_calls[i].pc = "done"
          /\ Len(cc_calls[i].result[1].entities) >= 2
          /\ \E e \in DOMAIN cc_heap[cc_calls[i].entities] :
                cc_heap[cc_calls[i].entities][e].attributes # <<>>
          /\ cc_calls[j].pc = "extract"
          /\ cc_calls[j].k > 0
          /\ cc_heap[cc_calls[j].entities] # <<>>
          /\ cc_heap[cc_calls[j].seen_spans] # {}
          /\ cc_calls[j].text # cc_calls[i].text

(***************************************************************************)
(* The scenarios of build.                                                 *)
(***************************************************************************)
ScenarioA == "Alice lived in Wonderland."
ScenarioB == "Alice and Bob are friends. Bob and Alice are friends."

\* the returned entities of that name
KG_named(name) ==
    {i \in DOMAIN kg_result[1].entities : kg_result[1].entities[i].name = name}

\* the returned entity set has an entity of that name, type and mention count
KG_has_entity(name, type, mentions) ==
    \E i \in KG_named(name) :
        /\ kg_result[1].entities[i].type = type
        /\ kg_result[1].entities[i].mentions = mentions

\* C17: build("Alice lived in Wonderland.") returns a PERSON "Alice" and a
\* LOCATION "Wonderland", each with a mention count of 1.
C17_ScenarioAEntities ==
    (KG_Returned /\ text = ScenarioA) =>
        /\ KG_has_entity("Alice", "PERSON", 1)
        /\ KG_has_entity("Wonderland", "LOCATION", 1)

\* C18, as stated: build("Alice lived in Wonderland.") returns no relation.
C18_ScenarioANoRelations ==
    (KG_Returned /\ text = ScenarioA) =>
        /\ kg_result[1].relations = <<>>
        /\ kg_result[1].graph.edge_count = 0
        /\ kg_result[1].statistics.total_relations = 0

\* C18, amended: build("Alice lived in Wonderland.") returns exactly one
\* relation, a LOCATED_IN from the entity "Alice" to the entity "Wonderland",
\* the first LOCATED_IN pattern matching "Alice lived in Wonderland"; the graph
\* has one edge and total_relations is 1.
C18_ScenarioAOneRelation ==
    (KG_Returned /\ text = ScenarioA) =>
        /\ Len(kg_result[1].relations) = 1
        /\ kg_result[1].relations[1].type = "LOCATED_IN"
        /\ \E a \in KG_named("Alice"), w \in KG_named("Wonderland") :
              /\ kg_result[1].relations[1].source = kg_result[1].entities[a].id
              /\ kg_result[1].relations[1].target = kg_result[1].entities[w].id
        /\ kg_result[1].relations[1].context = "Alice lived in Wonderland"
        /\ kg_result[1].graph.edge_count = 1
        /\ Len(kg_result[1].graph.edges) = 1
        /\ kg_result[1].statistics.total_relations = 1

\* build returned on scenario A after its relation loop recorded a relation
C18_Witness ==
    /\ KG_Returned
    /\ text = ScenarioA
    /\ kg_relations # <<>>

\* C19: build("Alice and Bob are friends. Bob and Alice are friends.") returns
\* exactly two entities, the PERSONs "Alice" and "Bob" with 2 mentions each,
\* at least one FRIENDSHIP relation between their ids, and no relation whose
\* source is its target.
C19_ScenarioB ==
    (KG_Returned /\ text = ScenarioB) =>
        /\ Len(kg_result[1].entities) = 2
        /\ KG_has_entity("Alice", "PERSON", 2)
        /\ KG_has_entity("Bob", "PERSON", 2)
        /\ \E r \in DOMAIN kg_result[1].relations :
              \E a \in KG_named("Alice"), b \in KG_named("Bob") :
                  /\ kg_result[1].relations[r].type = "FRIENDSHIP"
                  /\ {kg_result[1].relations[r].source,
                      kg_result[1].relations[r].target}
                       = {kg_result[1].entities[a].id, kg_result[1].entities[b].id}
        /\ \A r \in DOMAIN kg_result[1].relations :
              kg_result[1].relations[r].source # kg_result[1].relations[r].target

\* build returned on scenario B, both loops having run over its matches
C19_Witness ==
    /\ KG_Returned
    /\ text = ScenarioB
    /\ Len(kg_entities) = 2
    /\ Len(kg_relations) >= 1

\* the text has no character but whitespace
KG_blank_text == Strip(text) = ""

\* C20: on the empty text and on a text of whitespace only, build does not
\* raise and returns no entity, no relation, no node and no edge, with
\* node_count 0, edge_count 0 and graph_density 0.
C20_EmptyInput ==
    KG_blank_text =>
        /\ kg_pc # "raised"
        /\ KG_Returned =>
              /\ kg_result[1].entities = <<>>
              /\ kg_result[1].relations = <<>>
              /\ kg_result[1].graph.nodes = <<>>
              /\ kg_result[1].graph.edges = <<>>
              /\ kg_result[1].graph.node_count = 0
              /\ kg_result[1].graph.edge_count = 0
              /\ kg_result[1].statistics.graph_density = Zero

\* build returned on a text of whitespace, tab and newline among it
C20_Witness ==
    /\ KG_Returned
    /\ KG_blank_text
    /\ Len(text) >= 3

(***************************************************************************)
(* Properties of extract_relations.                                        *)
(***************************************************************************)
RECURSIVE KG_relation_visits(_, _, _)
\* the matches of the relation patterns in the order the loops of
\* extract_relations visit them, from pattern pi of type ti on
KG_relation_visits(t, ti, pi) ==
    IF ti > Len(relation_patterns) THEN <<>>
    ELSE IF pi > Len(relation_patterns[ti].patterns)
    THEN KG_relation_visits(t, ti + 1, 1)
    ELSE LET ms == FindIter(relation_patterns[ti].patterns[pi], t, TRUE)
         IN  [j \in DOMAIN ms |-> [ti |-> ti, pi |-> pi, m |-> ms[j]]]
               \o KG_relation_visits(t, ti, pi + 1)

KG_visit_groups(v) == relation_patterns[v.ti].patterns[v.pi].ngroups

\* the entities whose name, lower-cased, is the n-th captured text of the
\* match, stripped and lower-cased
KG_resolved(v, n) ==
    IF GroupIsNone(v.m, n) THEN {}
    ELSE LET name == StrLower(Strip(Group(text, v.m, n)))
         IN  {i \in DOMAIN kg_entities : StrLower(kg_entities[i].val.name) = name}

\* the match has two groups or more and its first two captured names
\* resolve to two distinct entities
KG_qualifies(v) ==
    /\ KG_visit_groups(v) >= 2
    /\ \E a \in KG_resolved(v, 1), b \in KG_resolved(v, 2) : a # b

KG_qualifying == SelectSeq(KG_relation_visits(text, 1, 1), KG_qualifies)

KG_triple(r) == <<r.source_id, r.target_id, r.relation_type>>

\* C21: the list extract_relations returns has one relation for each match,
\* in visiting order, of a pattern with two groups or more whose first two
\* captured names resolve to two distinct entities, a repeated (source,
\* target, type) included, and none for any other match.
C21_NoDeduplication ==
    KG_RelationsJustReturned =>
        LET qualifying == KG_qualifying
        IN  /\ Len(kg_relations) = Len(qualifying)
            /\ \A i \in DOMAIN kg_relations :
                  LET v == qualifying[i]
                  IN  /\ kg_relations[i].relation_type = relation_patterns[v.ti].type
                      /\ \E a \in KG_resolved(v, 1), b \in KG_resolved(v, 2) :
                            /\ kg_relations[i].source_id = kg_entities[a].val.id
                            /\ kg_relations[i].target_id = kg_entities[b].val.id
                      /\ kg_relations[i].context = KG_context(Group0(text, v.m))

\* the returned list has two relations of one (source, target, type), and a
\* pattern with one group matched the text
C21_Witness ==
    /\ KG_RelationsJustReturned
    /\ \E i, j \in DOMAIN kg_relations :
          i < j /\ KG_triple(kg_relations[i]) = KG_triple(kg_relations[j])
    /\ LET visits == KG_relation_visits(text, 1, 1)
       IN  \E k \in DOMAIN visits : KG_visit_groups(visits[k]) < 2

(***************************************************************************)
(* Properties of the graph build returns.                                  *)
(***************************************************************************)
\* the relation type with underscores replaced by spaces and title-cased
KG_readable(relation_type) ==
    CASE relation_type = "FAMILY" -> "Family"
      [] relation_type = "FRIENDSHIP" -> "Friendship"
      [] relation_type = "ROMANTIC" -> "Romantic"
      [] relation_type = "ANTAGONISTIC" -> "Antagonistic"
      [] relation_type = "LOCATED_IN" -> "Located In"
      [] relation_type = "OWNS" -> "Owns"
      [] relation_type = "MENTOR" -> "Mentor"

KG_graph == kg_result[1].graph

\* C22: in the result of build, nodes[i] has the id, the name as label, the
\* type and the mentions as size of the i-th entity in discovery order;
\* edges[j] has the source, target and type of the j-th relation and the
\* readable form of its type as label; node_count and edge_count are the
\* lengths of both lists and the numbers of entities and relations; and every
\* edge joins ids of nodes of the graph.
C22_GraphDerived ==
    KG_Returned =>
        /\ Len(KG_graph.nodes) = Len(kg_entities)
        /\ Len(KG_graph.edges) = Len(kg_relations)
        /\ KG_graph.node_count = Len(KG_graph.nodes)
        /\ KG_graph.edge_count = Len(KG_graph.edges)
        /\ \A i \in DOMAIN kg_entities :
              /\ KG_graph.nodes[i].id = kg_entities[i].val.id
              /\ KG_graph.nodes[i].id = kg_result[1].entities[i].id
              /\ KG_graph.nodes[i].label = kg_entities[i].val.name
              /\ KG_graph.nodes[i].type = kg_entities[i].val.entity_type
              /\ KG_graph.nodes[i].size = kg_entities[i].val.mentions
        /\ \A j \in DOMAIN kg_relations :
              /\ KG_graph.edges[j].source = kg_relations[j].source_id
              /\ KG_graph.edges[j].target = kg_relations[j].target_id
              /\ KG_graph.edges[j].type = kg_relations[j].relation_type
              /\ KG_graph.edges[j].label = KG_readable(kg_relations[j].relation_type)
              /\ \E a, b \in DOMAIN KG_graph.nodes :
                    /\ KG_graph.nodes[a].id = KG_graph.edges[j].source
                    /\ KG_graph.nodes[b].id = KG_graph.edges[j].target

\* build returned a graph with a node of size 2 or more and an edge whose
\* type has an underscore
C22_Witness ==
    /\ KG_Returned
    /\ Len(KG_graph.nodes) >= 2
    /\ \E i \in DOMAIN KG_graph.nodes : KG_graph.nodes[i].size >= 2
    /\ \E j \in DOMAIN KG_graph.edges : KG_graph.edges[j].type = "LOCATED_IN"

(***************************************************************************)
(* Properties of _calculate_confidence and _get_context                    *)
(***************************************************************************)
\* the number of context words of the type of e that occur, whatever the
\* case, in window
NER_clues(e, window) ==
    LET words == NER_info_of(e.entity_type).context_words
    IN  Cardinality({i \in DOMAIN words :
                        Contains(StrLower(window), StrLower(words[i]))})

\* the 50 characters before start_pos and after end_pos, clipped to the text
NER_window(e) ==
    Slice(ner_text,
          IF e.start_pos > 50 THEN e.start_pos - 50 ELSE 0,
          IF e.end_pos + 50 < Len(ner_text) THEN e.end_pos + 50 ELSE Len(ner_text))

\* the weight, raised by 0.1 for each clue and capped at 1.0, in hundredths
NER_capped(e) ==
    LET k == NER_clues(e, NER_window(e))
        weight == NER_info_of(e.entity_type).weight
    IN  IF k > 0 THEN (IF weight + 10 * k > 100 THEN 100 ELSE weight + 10 * k)
        ELSE weight

\* c, in hundredths, is num / den rounded to two decimals
RoundsTo(c, num, den) == 2 * den * c - den <= 2 * num /\ 2 * num <= 2 * den * c + den

\* C23: the context of every entity of extract_entities is the window of 50
\* characters on each side of its match, clipped to the text, and its
\* confidence is, rounded to two decimals, the weight of its type, raised to
\* min(weight + 0.1 * k, 1.0) when k > 0 context words of the type occur in
\* the window, then multiplied by 0.8 when its text is shorter than 3.
C23_ConfidenceFormula ==
    \A i \in DOMAIN ner_entities :
        LET e == ner_entities[i]
        IN  /\ e.context = NER_window(e)
            /\ IF Len(e.text) < 3
               THEN RoundsTo(e.confidence, 8 * NER_capped(e), 10)
               ELSE e.confidence = NER_capped(e)

\* returned entities: a short one whose weight, boosted by a context word
\* that the text has in upper case, exceeds 1.0, and whose window ends before
\* a further context word of the text; and one whose window starts after the
\* start of the text
C23_Witness ==
    /\ NER_Returned
    /\ \E i, j \in DOMAIN ner_entities :
          LET e == ner_entities[i]
          IN  /\ Len(e.text) < 3
              /\ Contains(e.context, "SAID")
              /\ NER_info_of(e.entity_type).weight + 10 * NER_clues(e, e.context) > 100
              /\ e.confidence = 80
              /\ e.end_pos + 50 < Len(ner_text)
              /\ NER_clues(e, ner_text) > NER_clues(e, e.context)
              /\ ner_entities[j].start_pos > 50

(***************************************************************************)
(* Properties of the order and the ids of the returned named entities      *)
(***************************************************************************)
\* the number n of the id NEn
NER_id_number(id) == CHOOSE n \in 0..Len(ner_iter) : id = "NE" \o ToString(n)

\* C24: while the loops run, the i-th entity appended has the id NE(i-1); the
\* returned list holds the same entities sorted by start_pos ascending, those
\* of equal start_pos in the order of their ids, so that the ids of the
\* result are each of NE0 .. NE(n-1) once.
C24_SortedById ==
    /\ ner_pc = "extract" =>
          \A i \in DOMAIN ner_entities : ner_entities[i].id = "NE" \o ToString(i - 1)
    /\ NER_Returned =>
          LET result == ner_result[1]
          IN  /\ \A i, j \in DOMAIN result :
                    i < j =>
                       \/ result[i].start_pos < result[j].start_pos
                       \/ /\ result[i].start_pos = result[j].start_pos
                          /\ NER_id_number(result[i].id) < NER_id_number(result[j].id)
              /\ Len(result) = ner_entity_id
              /\ \A n \in 0..(Len(result) - 1) :
                    Cardinality({i \in DOMAIN result : result[i].id = "NE" \o ToString(n)}) = 1

\* the returned list has an entity before another of smaller id: the sort
\* moved it
C24_Witness ==
    /\ NER_Returned
    /\ \E i, j \in DOMAIN ner_result[1] :
          /\ i < j
          /\ NER_id_number(ner_result[1][i].id) > NER_id_number(ner_result[1][j].id)

(***************************************************************************)
(* Properties of the filter on the text of a candidate                     *)
(***************************************************************************)
NER_visit_span(j) == <<ner_iter[j].m.start, ner_iter[j].m.end>>

\* the j-th candidate visited was discarded by the filter on its text
NER_visit_rejected(j) ==
    /\ ~ner_iter[j].raised
    /\ NER_rejected(NER_visit_text(j), NER_visit_type(j))

NER_entity_span(e) == <<e.start_pos, e.end_pos>>

\* C25: the text of every entity of extract_entities is not empty, is not a
\* stop word and has 2 characters or more unless the entity is a QUANTITY;
\* the recorded spans are those of the entities, a discarded candidate
\* recording none; and a visited candidate that passes the filter is an
\* entity or overlaps one, whatever discarded candidates it overlaps.
C25_TextFilter ==
    /\ \A i \in DOMAIN ner_entities :
          /\ ner_entities[i].text # ""
          /\ ner_entities[i].text \notin stop_words
          /\ Len(ner_entities[i].text) >= 2 \/ ner_entities[i].entity_type = "QUANTITY"
    /\ seen_spans = {NER_entity_span(ner_entities[i]) : i \in DOMAIN ner_entities}
    /\ \A j \in 1..ner_k :
          (~ner_iter[j].raised /\ ~NER_visit_rejected(j)) =>
              \E i \in DOMAIN ner_entities :
                  Intersects(ner_iter[j].m.start, ner_iter[j].m.end,
                             ner_entities[i].start_pos, ner_entities[i].end_pos)

\* returned entities: one whose span overlaps that of a candidate discarded
\* as a stop word before it was accepted, and a QUANTITY of one character
C25_Witness ==
    /\ NER_Returned
    /\ \E i \in DOMAIN ner_entities :
          \E j, k \in 1..ner_k :
              /\ j < k
              /\ NER_visit_rejected(j)
              /\ NER_visit_text(j) \in stop_words
              /\ NER_visit_span(k) = NER_entity_span(ner_entities[i])
              /\ NER_visit_type(k) = ner_entities[i].entity_type
              /\ Intersects(ner_iter[j].m.start, ner_iter[j].m.end,
                            ner_entities[i].start_pos, ner_entities[i].end_pos)
    /\ \E i \in DOMAIN ner_entities :
          ner_entities[i].entity_type = "QUANTITY" /\ Len(ner_entities[i].text) = 1

(***************************************************************************)
(* Properties of the entities during extract_entities of the builder       *)
(***************************************************************************)
KG_first_mention_pos(i) == kg_entities[i].val.attributes.first_mention_pos

\* the start offsets of the visited matches counted as mentions of entity i
KG_mention_starts(i) ==
    {kg_iter[j].m.start : j \in {v \in 1..kg_k :
        /\ KG_visit_counted(v)
        /\ StrLower(KG_visit_name(v)) = StrLower(kg_entities[i].val.name)}}

\* C26: the entities are in the order of their positions in the text: for
\* entities Ei and Ej with i < j, first_mention_pos of Ei is at most that of
\* Ej, and the first_mention_pos of an entity is the smallest start offset of
\* its mentions.
C26_SpanOrder ==
    KG_EntitiesReturned =>
        /\ \A i, j \in DOMAIN kg_entities :
              i < j => KG_first_mention_pos(i) <= KG_first_mention_pos(j)
        /\ \A i \in DOMAIN kg_entities :
              \A p \in KG_mention_starts(i) : KG_first_mention_pos(i) <= p

\* C27: the matches that created an entity or added a mention are pairwise
\* non-overlapping intervals of the text, whatever their categories, so that
\* no entity has more mentions than the text has disjoint matches of its name.
C27_MentionsDisjoint ==
    kg_pc # "idle" =>
        \A j, k \in 1..kg_k :
            (j < k /\ KG_visit_counted(j) /\ KG_visit_counted(k)) =>
                ~Intersects(kg_iter[j].m.start, kg_iter[j].m.end,
                            kg_iter[k].m.start, kg_iter[k].m.end)

\* entity i is, after the step, what it was
KG_entity_kept(i) == i \in DOMAIN kg_entities' /\ kg_entities'[i] = kg_entities[i]

\* entity i is, after the step, what it was but for one more mention
KG_entity_mentioned(i) ==
    /\ i \in DOMAIN kg_entities'
    /\ kg_entities'[i] = [kg_entities[i] EXCEPT !.val.mentions = @ + 1]

\* the entities whose name, lower-cased, is that of the match the loops are at
KG_cur_same_name ==
    {i \in DOMAIN kg_entities :
        StrLower(kg_entities[i].val.name) = StrLower(KG_cur_name)}

\* C28: in every step of build, each entity stays in the set with its id,
\* name, type and first_mention_pos.  A counted match of the name of an entity,
\* lower-cased, adds 1 to the mentions of that entity and changes nothing
\* else; a counted match of a name no entity has adds one entity, with the
\* stripped captured text as name, the category of the pattern as type, the
\* start of the match as first_mention_pos and 1 mention, and changes no
\* other; every other step leaves the entities as they are.
C28_EntityFrame ==
    [][ IF KG_InLoop /\ KG_cur_group # None
             /\ ~KG_should_skip_entity(KG_cur_name, KG_cur_type)
        THEN IF KG_cur_same_name # {}
             THEN /\ Len(kg_entities') = Len(kg_entities)
                  /\ Cardinality(KG_cur_same_name) = 1
                  /\ \A i \in DOMAIN kg_entities :
                        IF i \in KG_cur_same_name THEN KG_entity_mentioned(i)
                        ELSE KG_entity_kept(i)
             ELSE /\ Len(kg_entities') = Len(kg_entities) + 1
                  /\ \A i \in DOMAIN kg_entities : KG_entity_kept(i)
                  /\ LET new == kg_entities'[Len(kg_entities')].val
                     IN  /\ new.name = KG_cur_name
                         /\ new.entity_type = KG_cur_type
                         /\ new.attributes.first_mention_pos = KG_cur.m.start
                         /\ new.mentions = 1
        ELSE kg_entities' = kg_entities
      ]_vars

\* the match just visited, of another category than the entity of its name
\* and at another offset than its first mention, added a mention to it, next
\* to an entity it left alone
C28_Witness ==
    /\ kg_pc = "entities"
    /\ kg_k >= 1
    /\ KG_visit_counted(kg_k)
    /\ Len(kg_entities) >= 2
    /\ \E i \in DOMAIN kg_entities :
          /\ StrLower(kg_entities[i].val.name) = StrLower(KG_visit_name(kg_k))
          /\ kg_entities[i].val.mentions >= 2
          /\ kg_entities[i].val.entity_type # KG_visit_type(kg_k)
          /\ KG_first_mention_pos(i) # kg_iter[kg_k].m.start

\* C29: every relation extract_relations returns has confidence 1.0, the
\* category of the pattern of its match as type, and as context the first 100
\* characters of the whole match: the whole match when it has 100 characters
\* or fewer.
C29_RelationFields ==
    KG_RelationsJustReturned =>
        LET qualifying == KG_qualifying
        IN  \A i \in DOMAIN kg_relations :
                LET whole == Group0(text, qualifying[i].m)
                    r == kg_relations[i]
                IN  /\ r.confidence = [num |-> 1, den |-> 1]
                    /\ r.relation_type = relation_patterns[qualifying[i].ti].type
                    /\ Len(r.context) <= 100
                    /\ Len(r.context) = (IF Len(whole) < 100 THEN Len(whole) ELSE 100)
                    /\ r.context = SubSeq(whole, 1, Len(r.context))

\* returned relations: one whose context is its whole match, and one whose
\* match is longer than 100 characters
C29_Witness ==
    /\ KG_RelationsJustReturned
    /\ LET qualifying == KG_qualifying
       IN  \E i, j \in DOMAIN kg_relations :
              /\ Len(Group0(text, qualifying[i].m)) < 100
              /\ kg_relations[i].context = Group0(text, qualifying[i].m)
              /\ Len(Group0(text, qualifying[j].m)) > 100
              /\ Len(kg_relations[j].context) = 100

(***************************************************************************)
(* Properties of the statistics build returns.                             *)
(***************************************************************************)
RECURSIVE SumOfCounts(_)
\* the sum of the values of a mapping of counts
SumOfCounts(counts) ==
    IF counts = <<>> THEN 0 ELSE Head(counts).val + SumOfCounts(Tail(counts))

KG_statistics == kg_result[1].statistics

\* C30: in every result of build, total_entities is the number of entities
\* and of nodes, total_relations the number of relations and of edges, the
\* counts of entity_types add up to total_entities and those of
\* relation_types to total_relations, each count is 1 or more, graph_density
\* is not negative and is_directed is true.
C30_StatisticsConsistent ==
    KG_Returned =>
        /\ KG_statistics.total_entities = Len(kg_result[1].entities)
        /\ KG_statistics.total_entities = kg_result[1].graph.node_count
        /\ KG_statistics.total_relations = Len(kg_result[1].relations)
        /\ KG_statistics.total_relations = kg_result[1].graph.edge_count
        /\ SumOfCounts(KG_statistics.entity_types) = KG_statistics.total_entities
        /\ SumOfCounts(KG_statistics.relation_types) = KG_statistics.total_relations
        /\ \A i \in DOMAIN KG_statistics.entity_types :
              KG_statistics.entity_types[i].val >= 1
        /\ \A i \in DOMAIN KG_statistics.relation_types :
              KG_statistics.relation_types[i].val >= 1
        /\ KG_statistics.graph_density.num >= 0
        /\ KG_statistics.graph_density.den > 0
        /\ KG_statistics.is_directed = TRUE

\* build returned entities of two types, two of them of one type, and
\* relations of two types, two of them of one type
C30_Witness ==
    /\ KG_Returned
    /\ Len(KG_statistics.entity_types) >= 2
    /\ \E i \in DOMAIN KG_statistics.entity_types :
          KG_statistics.entity_types[i].val >= 2
    /\ Len(KG_statistics.relation_types) >= 2
    /\ \E i \in DOMAIN KG_statistics.relation_types :
          KG_statistics.relation_types[i].val >= 2

====
